---- MODULE Spec2Model ----
(***************************************************************************)
(* Resumable enumeration algorithms of the repository, as state machines:  *)
(* every enumerator is advanced one next() call per step.                  *)
(***************************************************************************)
EXTENDS Integers, Sequences, FiniteSets, TLC

VARIABLES
    graph,          \* the input graph an enumerator borrows
    source_vertex,  \* the source vertex of a single-source search
    algo,           \* which of two enumerators of a family the run drives
    elements,       \* the slice IQS is built from
    out,            \* the values the next() calls made so far returned, in order
    boruvka,        \* MstEnumerator of boruvka.rs
    lazy,           \* a LazyArray
    lazy_written,   \* for every index of the LazyArray, the value last written
    lazy_ret,       \* the last call on the LazyArray and the value it returned
    iqs,            \* an IQS
    idfs,           \* an IDFS
    sssd_bfs,       \* SssdEnumerator of sssd/unweighted_lazy.rs
    sssd_dijkstra,  \* SssdEnumerator of sssd/weighted.rs
    parallel_bfs,       \* the chained iterator of apsd/unweighted_sorted.rs
    parallel_dijkstra,  \* the chained iterator of apsd/weighted_sorted.rs
    apsd_rows,      \* the chained iterator of apsd/unweighted.rs or apsd/weighted.rs
    apsd_no_self,   \* the chained iterator of apsd/*_no_self.rs
    kruskal,        \* MstEnumerator of kruskal.rs
    prim,           \* MstEnumerator of prim.rs
    enum_mst,       \* MstEnumerator of enumeration.rs
    ibfs,           \* an IBFS
    uf,             \* a UnionFind or a RankedUnionFind
    uf_unions,      \* the pairs the union calls on uf were made with
    td,             \* the TestDrop whose items a LazyArray stores
    isr,            \* an IterativeSourceRemoval
    instance,       \* the flow shop instance an enumerator borrows
    f2cmax,         \* EnumerateWithIQS of f2_cmax.rs
    partitioned     \* the slice after a call of partition and the index returned

vars == <<graph, source_vertex, algo, elements, out, boruvka, lazy, lazy_written, lazy_ret,
          iqs, idfs, sssd_bfs, sssd_dijkstra, parallel_bfs, parallel_dijkstra,
          apsd_rows, apsd_no_self, kruskal, prim, enum_mst,
          ibfs, uf, uf_unions, td, isr, instance, f2cmax, partitioned>>

\* what a step on one object leaves alone: the inputs and every other object
inputs == <<graph, source_vertex, algo, elements>>
lazy_vars == <<lazy, lazy_written, lazy_ret>>
first_enumerators ==
    <<boruvka, iqs, idfs, sssd_bfs, sssd_dijkstra, parallel_bfs, parallel_dijkstra>>
more_enumerators == <<apsd_rows, apsd_no_self, kruskal, prim, enum_mst>>
later_objects == <<ibfs, uf, uf_unions, td, isr, instance, f2cmax, partitioned>>
earlier_objects == <<inputs, lazy_vars, first_enumerators, more_enumerators>>
all_but_ibfs == <<earlier_objects, uf, uf_unions, td, isr, instance, f2cmax, partitioned>>
all_but_uf == <<earlier_objects, out, ibfs, td, isr, instance, f2cmax, partitioned>>
all_but_lazy_and_td ==
    <<inputs, out, first_enumerators, more_enumerators,
      ibfs, uf, uf_unions, isr, instance, f2cmax, partitioned>>
all_but_isr == <<earlier_objects, ibfs, uf, uf_unions, td, instance, f2cmax, partitioned>>
all_but_f2cmax == <<earlier_objects, ibfs, uf, uf_unions, td, isr, instance, partitioned>>
all_but_partitioned ==
    <<earlier_objects, out, ibfs, uf, uf_unions, td, isr, instance, f2cmax>>
all_but_boruvka ==
    <<inputs, lazy_vars, iqs, idfs, sssd_bfs, sssd_dijkstra, parallel_bfs, parallel_dijkstra, more_enumerators, later_objects>>
all_but_lazy ==
    <<inputs, out, boruvka, iqs, idfs, sssd_bfs, sssd_dijkstra, parallel_bfs, parallel_dijkstra, more_enumerators, later_objects>>
all_but_iqs ==
    <<inputs, lazy_vars, boruvka, idfs, sssd_bfs, sssd_dijkstra, parallel_bfs, parallel_dijkstra, more_enumerators, later_objects>>
all_but_idfs ==
    <<inputs, lazy_vars, boruvka, iqs, sssd_bfs, sssd_dijkstra, parallel_bfs, parallel_dijkstra, more_enumerators, later_objects>>
all_but_sssd_bfs ==
    <<inputs, lazy_vars, boruvka, iqs, idfs, sssd_dijkstra, parallel_bfs, parallel_dijkstra, more_enumerators, later_objects>>
all_but_sssd_dijkstra ==
    <<inputs, lazy_vars, boruvka, iqs, idfs, sssd_bfs, parallel_bfs, parallel_dijkstra, more_enumerators, later_objects>>
all_but_parallel_bfs ==
    <<inputs, lazy_vars, boruvka, iqs, idfs, sssd_bfs, sssd_dijkstra, parallel_dijkstra, more_enumerators, later_objects>>
all_but_parallel_dijkstra ==
    <<inputs, lazy_vars, boruvka, iqs, idfs, sssd_bfs, sssd_dijkstra, parallel_bfs, more_enumerators, later_objects>>
all_but_apsd_rows ==
    <<inputs, lazy_vars, first_enumerators, apsd_no_self, kruskal, prim, enum_mst, later_objects>>
all_but_apsd_no_self ==
    <<inputs, lazy_vars, first_enumerators, apsd_rows, kruskal, prim, enum_mst, later_objects>>
all_but_kruskal ==
    <<inputs, lazy_vars, first_enumerators, apsd_rows, apsd_no_self, prim, enum_mst, later_objects>>
all_but_prim ==
    <<inputs, lazy_vars, first_enumerators, apsd_rows, apsd_no_self, kruskal, enum_mst, later_objects>>
all_but_enum_mst ==
    <<inputs, lazy_vars, first_enumerators, apsd_rows, apsd_no_self, kruskal, prim, later_objects>>

\* an object or input a run does not use
Idle == <<>>

\* the run uses none of the enumerators of more_enumerators
MoreEnumeratorsIdle ==
    /\ apsd_rows = Idle /\ apsd_no_self = Idle
    /\ kruskal = Idle /\ prim = Idle /\ enum_mst = Idle

\* the run uses none of the objects of later_objects
LaterObjectsIdle ==
    /\ ibfs = Idle /\ uf = Idle /\ uf_unions = Idle /\ td = Idle
    /\ isr = Idle /\ instance = Idle /\ f2cmax = Idle /\ partitioned = Idle

\* ------------------------------------------------------------------ bounds
\* undirected inputs of the spanning tree enumerators: up to MaxMstVertices
\* vertices, an edge only between vertices at most MaxSpan apart, weights
\* 1..MaxMstWeight; MaxExtraCalls next() calls beyond the n a run needs
MaxMstVertices == 6
MaxSpan == 2
MaxMstWeight == 2
MaxExtraCalls == 2

\* ------------------------------------------------------------ Option values
None == <<"None">>
Some(x) == <<"Some", x>>
IsSome(o) == o[1] = "Some"
Unwrap(o) == o[2]

\* --------------------------------------------------------- sequence helpers
RECURSIVE Concat(_)
Concat(ss) == IF ss = <<>> THEN <<>> ELSE Head(ss) \o Concat(Tail(ss))

Range(s) == {s[i] : i \in 1..Len(s)}

\* ------------------------------------------------------------------- edges
source(e) == e[1]
sink(e) == e[2]
data(e) == e[3]

\* ------------------------------------------------------------------ graphs
\* DirectedAdjacencyArrayGraph::from_edges with Direction::OUT: the adjacencies
\* of a vertex keep the order of the edge list
DirectedAdjacencyArrayGraph(n, edges) ==
    [n |-> n,
     adj |-> [v \in 0..(n - 1) |->
                LET own == SelectSeq(edges, LAMBDA e : source(e) = v)
                IN  [i \in 1..Len(own) |-> <<sink(own[i]), data(own[i])>>]]]

\* UndirectedAdjacencyArrayGraph::new_with_edge_data: the edges, then the
\* transposed non-loop edges
UndirectedAdjacencyArrayGraph(n, edges) ==
    LET nonLoops == SelectSeq(edges, LAMBDA e : source(e) # sink(e))
        transposed_edges ==
            [i \in 1..Len(nonLoops) |->
                <<sink(nonLoops[i]), source(nonLoops[i]), data(nonLoops[i])>>]
    IN  DirectedAdjacencyArrayGraph(n, edges \o transposed_edges)

num_vertices(g) == g.n
Vertices(g) == 0..(g.n - 1)

\* Graph::adjacencies(v, OUT), as the sequence the iterator yields
adjacencies(g, v) == g.adj[v]

\* EdgeIterator: all adjacencies, vertex by vertex
edges(g) ==
    Concat([i \in 1..g.n |->
              [j \in 1..Len(g.adj[i - 1]) |->
                  <<i - 1, g.adj[i - 1][j][1], g.adj[i - 1][j][2]>>]])

\* ------------------------------------------------------------- comparators
Less == "Less"
Equal == "Equal"
Greater == "Greater"

\* Ord::cmp on integers
cmp(a, b) == IF a < b THEN Less ELSE IF a = b THEN Equal ELSE Greater

\* Extract::new(|e| e.data()): edges compared by their weight alone
compare(e1, e2) == cmp(data(e1), data(e2))

\* then_with: the second order decides only between equal elements
then_with(o1, o2) == IF o1 = Equal THEN o2 ELSE o1

\* the closure edge_selection of credit_accumulation_step: minimum weight,
\* ties in favour of the smaller sink vertex id
edge_selection(e1, e2) == then_with(compare(e1, e2), cmp(sink(e1), sink(e2)))

\* Iterator::min_by(edge_selection): the first of several equally minimum
\* elements
RECURSIVE min_by_from(_, _, _)
min_by_from(s, i, best) ==
    IF i > Len(s) THEN best
    ELSE min_by_from(s, i + 1,
                     IF edge_selection(best, s[i]) = Greater THEN s[i] ELSE best)

min_by(s) == IF s = <<>> THEN None ELSE Some(min_by_from(s, 2, s[1]))

\* -------------------------------------------------------------- union-find
\* Forest::new_isolated_vertices: no vertex has a parent; parent_of maps a
\* vertex without parent to itself
new_with_size(n) == [x \in 0..(n - 1) |-> x]

parent_of(p, x) == p[x]

is_same_parent(p, x, y) == parent_of(p, x) = parent_of(p, y)

set_parent(p, child, new_parent) == [p EXCEPT ![child] = new_parent]

\* a find that cuts the vertex it passes off its chain instead of halving
RECURSIVE find_loop_cutting(_, _)
find_loop_cutting(p, u) ==
    LET v == parent_of(p, u)
        w == parent_of(p, v)
    IN  IF v # w THEN find_loop_cutting(set_parent(p, u, u), w)
        ELSE [root |-> w, parents |-> p]

\* find with path halving; yields the root and the changed parent links
RECURSIVE find_loop(_, _)
find_loop(p, u) ==
    LET v == parent_of(p, u)
        w == parent_of(p, v)
    IN  IF v # w THEN find_loop(set_parent(p, u, w), w)
        ELSE [root |-> w, parents |-> p]

find(p, x) == find_loop(p, x)

is_same(p, x, y) ==
    LET fx == find(p, x)
        fy == find(fx.parents, y)
    IN  [same |-> fx.root = fy.root, parents |-> fy.parents]

union(p, x, y) ==
    LET fx == find(p, x)
        fy == find(fx.parents, y)
    IN  IF fx.root = fy.root THEN fy.parents
        ELSE set_parent(fy.parents, fx.root, fy.root)

\* the root of x, following the parent links without changing them
RECURSIVE chain_root(_, _)
chain_root(p, u) == IF parent_of(p, u) = u THEN u ELSE chain_root(p, parent_of(p, u))

\* the vertices on the parent chain of x, its root excluded
RECURSIVE chain(_, _)
chain(p, u) == IF parent_of(p, u) = u THEN {} ELSE {u} \cup chain(p, parent_of(p, u))

\* a flatten that sets each parent to the parent of the parent, once
flatten_halving(p) == [x \in DOMAIN p |-> parent_of(p, parent_of(p, x))]

RECURSIVE flatten_from(_, _)
flatten_from(p, x) ==
    IF x \notin DOMAIN p THEN p
    ELSE LET v == chain_root(p, x)
             c == chain(p, x)
         IN  flatten_from([y \in DOMAIN p |-> IF y \in c THEN v ELSE p[y]], x + 1)

flatten(p) == flatten_from(p, 0)

\* ------------------------------------------------- MST: credit accumulation
Panic == <<"Panic">>

\* the adjacencies of v as edges (u, sink, data): the map closure of
\* credit_accumulation_step, which names u as the source in both of its uses
mapped_adjacencies(g, u, v) ==
    [j \in 1..Len(adjacencies(g, v)) |->
        <<u, adjacencies(g, v)[j][1], adjacencies(g, v)[j][2]>>]

\* a step that emits the selected edge of every vertex, without the check for
\* an edge already selected from its other end
credit_accumulation_unchecked(g, iterator) ==
    IF iterator >= num_vertices(g) THEN [result |-> None, iterator |-> iterator]
    ELSE LET selected == min_by(mapped_adjacencies(g, iterator, iterator))
         IN  [result |-> IF IsSome(selected) THEN selected ELSE Panic,
              iterator |-> iterator + 1]

\* credit_accumulation_step: the result (Some edge, None, or a panic) and the
\* position the vertex iterator is left at
RECURSIVE credit_accumulation_step(_, _)
credit_accumulation_step(g, iterator) ==
    IF iterator >= num_vertices(g) THEN [result |-> None, iterator |-> iterator]
    ELSE LET u == iterator
             selected == min_by(mapped_adjacencies(g, u, u))
         IN  IF ~IsSome(selected)
             THEN [result |-> Panic, iterator |-> u + 1]
             ELSE LET v == sink(Unwrap(selected))
                      w == data(Unwrap(selected))
                      other == min_by(mapped_adjacencies(g, u, v))
                  IN  IF u < v
                      THEN [result |-> Some(<<u, v, w>>), iterator |-> u + 1]
                      ELSE IF ~IsSome(other)
                      THEN [result |-> Panic, iterator |-> u + 1]
                      ELSE IF sink(Unwrap(other)) = u
                      THEN credit_accumulation_step(g, u + 1)
                      ELSE [result |-> Some(<<u, v, w>>), iterator |-> u + 1]

\* ----------------------------------------------------- incremental Boruvka
\* "find a minimum weight crossing edge per component": the loop over
\* crossing_edges from position i on
RECURSIVE select_new_edges(_, _, _, _)
select_new_edges(crossing, i, comps, new_edges) ==
    IF i > Len(crossing) THEN [components |-> comps, new_edges |-> new_edges]
    ELSE LET e == crossing[i]
             f == find(comps, source(e))
             old == new_edges[f.root]
             chosen == IF ~IsSome(old) THEN Some(e)
                       ELSE IF compare(e, Unwrap(old)) \in {Less, Equal} THEN Some(e)
                       ELSE old
         IN  select_new_edges(crossing, i + 1, f.parents,
                              [new_edges EXCEPT ![f.root] = chosen])

\* a merge loop that queues every selected edge without the is_same test
RECURSIVE merge_components_unchecked(_, _, _, _)
merge_components_unchecked(new_edges, c, comps, queue) ==
    IF c \notin DOMAIN new_edges THEN [components |-> comps, edge_queue |-> queue]
    ELSE IF ~IsSome(new_edges[c]) THEN merge_components_unchecked(new_edges, c + 1, comps, queue)
    ELSE LET e == Unwrap(new_edges[c])
         IN  merge_components_unchecked(new_edges, c + 1,
                                        union(comps, source(e), sink(e)),
                                        Append(queue, e))

\* "merge components via crossing edges": the loop over new_edges from slot
\* c on
RECURSIVE merge_components(_, _, _, _)
merge_components(new_edges, c, comps, queue) ==
    IF c \notin DOMAIN new_edges THEN [components |-> comps, edge_queue |-> queue]
    ELSE IF ~IsSome(new_edges[c]) THEN merge_components(new_edges, c + 1, comps, queue)
    ELSE LET e == Unwrap(new_edges[c])
             s == is_same(comps, source(e), sink(e))
         IN  IF ~s.same
             THEN merge_components(new_edges, c + 1,
                                   union(s.parents, source(e), sink(e)),
                                   Append(queue, e))
             ELSE merge_components(new_edges, c + 1, s.parents, queue)

\* the filter of both phases: the edges whose end points have different
\* parents
retain_crossing(es, comps) ==
    SelectSeq(es, LAMBDA e : ~is_same_parent(comps, source(e), sink(e)))

\* pop_front of a VecDeque
pop_front(q) == IF q = <<>> THEN [item |-> None, rest |-> q]
                ELSE [item |-> Some(Head(q)), rest |-> Tail(q)]

\* the ExtensionPhase branch of MstEnumerator::next
extension_next(st) ==
    IF st.edge_queue # <<>>
    THEN [st EXCEPT !.ret = Some(Head(st.edge_queue)),
                    !.edge_queue = Tail(st.edge_queue)]
    ELSE IF st.crossing_edges = <<>>
    THEN [st EXCEPT !.ret = None]
    ELSE LET sel == select_new_edges(st.crossing_edges, 1, st.components,
                                     [c \in DOMAIN st.components |-> None])
             mrg == merge_components(sel.new_edges, 0, sel.components, <<>>)
             flat == flatten(mrg.components)
             popped == pop_front(mrg.edge_queue)
         IN  [st EXCEPT !.components = flat,
                        !.crossing_edges = retain_crossing(st.crossing_edges, flat),
                        !.edge_queue = popped.rest,
                        !.ret = popped.item]

\* "prepare the extension": the ExtensionPhase that replaces the
\* CreditAccumulationPhase, before its first round
prepare_extension(g, st) ==
    [st EXCEPT !.phase = "ExtensionPhase",
               !.crossing_edges = retain_crossing(edges(g), st.components)]

\* MstEnumerator::next of boruvka.rs on the enumerator state st; ret is the
\* value the call returns
boruvka_next(g, st) ==
    IF st.phase = "CreditAccumulationPhase"
    THEN LET step == credit_accumulation_step(g, st.iterator)
         IN  IF IsSome(step.result)
             THEN [st EXCEPT !.iterator = step.iterator,
                             !.components = union(st.components,
                                                  source(Unwrap(step.result)),
                                                  sink(Unwrap(step.result))),
                             !.ret = step.result]
             ELSE IF step.result = Panic
             THEN [st EXCEPT !.iterator = step.iterator, !.ret = Panic]
             ELSE extension_next(
                     prepare_extension(g, [st EXCEPT !.iterator = step.iterator]))
    ELSE extension_next(st)

\* ----------------------------------------------------------- graph inputs
\* the vertices reachable from vertex 0
RECURSIVE reach_from(_, _)
reach_from(g, seen) ==
    LET more == seen \cup {a[1] : a \in UNION {Range(adjacencies(g, v)) : v \in seen}}
    IN  IF more = seen THEN seen ELSE reach_from(g, more)

IsConnected(g) == reach_from(g, {0}) = Vertices(g)

\* the pairs (i, j), i < j <= i + MaxSpan, in lexicographic order
CandidatePairs(n) ==
    Concat([i \in 1..n |->
              [k \in 1..(IF n - i < MaxSpan THEN n - i ELSE MaxSpan) |->
                  <<i - 1, i - 1 + k>>]])

\* the edge list that gives pair k the weight ws[k], weight 0 meaning no edge
WeightedEdgeList(pairs, ws) ==
    LET all == [k \in 1..Len(pairs) |-> <<pairs[k][1], pairs[k][2], ws[k]>>]
    IN  SelectSeq(all, LAMBDA e : data(e) > 0)

\* connected undirected weighted graphs
MstGraphs(n) ==
    {g \in {UndirectedAdjacencyArrayGraph(n, WeightedEdgeList(CandidatePairs(n), ws)) :
               ws \in [1..Len(CandidatePairs(n)) -> 0..MaxMstWeight]} : IsConnected(g)}

\* ------------------------------------------------------- enumerator runs
Panicked == out # <<>> /\ out[Len(out)] = Panic

\* the values returned so far that are Some(_), unwrapped
Emitted == [i \in 1..Len(SelectSeq(out, IsSome)) |-> Unwrap(SelectSeq(out, IsSome)[i])]

\* MstEnumerator::with_comparator
BoruvkaInit ==
    /\ out = <<>>
    /\ boruvka = [phase |-> "CreditAccumulationPhase",
                  iterator |-> 0,
                  components |-> new_with_size(num_vertices(graph)),
                  crossing_edges |-> <<>>,
                  edge_queue |-> <<>>,
                  ret |-> None]

\* one call of MstEnumerator::next
BoruvkaNext ==
    /\ ~Panicked
    /\ Len(out) < num_vertices(graph) + MaxExtraCalls
    /\ boruvka' = boruvka_next(graph, boruvka)
    /\ out' = Append(out, boruvka'.ret)
    /\ UNCHANGED all_but_boruvka

InitBoruvka ==
    /\ LaterObjectsIdle
    /\ \E n \in 1..MaxMstVertices : graph \in MstGraphs(n)
    /\ BoruvkaInit
    /\ source_vertex = Idle /\ algo = Idle /\ elements = Idle
    /\ lazy = Idle /\ lazy_written = Idle /\ lazy_ret = Idle
    /\ iqs = Idle /\ idfs = Idle /\ sssd_bfs = Idle /\ sssd_dijkstra = Idle
    /\ parallel_bfs = Idle /\ parallel_dijkstra = Idle
    /\ MoreEnumeratorsIdle

SpecBoruvka == InitBoruvka /\ [][BoruvkaNext]_vars

\* --------------------------------------------------------------- LazyArray
MaxLazySize == 3
MaxValue == 2

\* a cell of allocated memory: never written, or holding a value
Uninit == <<"Uninit">>
Init(v) == <<"Init", v>>

\* ptr::read of a usize cell; a never-written cell reads as the arbitrary value
\* junk (0..size covers every usize: all values >= size behave alike)
read(cell, junk) == IF cell[1] = "Init" THEN cell[2] ELSE junk

\* what the reads of never-written cells in one call can yield: one read of
\* data_indices, one of reverse_indices, one of data
Junk(a) == (0..a.size) \X (0..a.size) \X (0..MaxValue)

\* LazyArray::new
LazyArray(size) ==
    [size |-> size,
     data |-> [c \in 0..(size - 1) |-> Uninit],
     num_valid |-> 0,
     data_indices |-> [c \in 0..(size - 1) |-> Uninit],
     reverse_indices |-> [c \in 0..(size - 1) |-> Uninit]]

\* LazyArray::get_data_index, without the check against reverse_indices
get_data_index_unconfirmed(a, real_index, junk) ==
    LET data_index == read(a.data_indices[real_index], junk[1])
    IN  IF data_index >= a.num_valid THEN None ELSE Some(data_index)

\* LazyArray::get_data_index
get_data_index(a, real_index, junk) ==
    LET data_index == read(a.data_indices[real_index], junk[1])
    IN  IF data_index >= a.num_valid
        THEN None
        ELSE LET reverse_index == read(a.reverse_indices[data_index], junk[2])
             IN  IF reverse_index = real_index THEN Some(data_index) ELSE None

\* create_data_index that stores the value in the slot of its real index
create_data_index_in_place(a, real_index, value) ==
    IF a.num_valid >= a.size
    THEN [array |-> a, ret |-> Panic]
    ELSE LET data_index == real_index
         IN  [array |-> [a EXCEPT !.data[data_index] = Init(value),
                                  !.reverse_indices[data_index] = Init(real_index),
                                  !.data_indices[real_index] = Init(data_index),
                                  !.num_valid = @ + 1],
              ret |-> Some(data_index)]

\* LazyArray::create_data_index: the array after the call and the data index;
\* debug_assert!(self.num_valid < self.size) fails instead of writing past the end
create_data_index(a, real_index, value) ==
    IF a.num_valid >= a.size
    THEN [array |-> a, ret |-> Panic]
    ELSE LET data_index == a.num_valid
         IN  [array |-> [a EXCEPT !.data[data_index] = Init(value),
                                  !.reverse_indices[data_index] = Init(real_index),
                                  !.data_indices[real_index] = Init(data_index),
                                  !.num_valid = @ + 1],
              ret |-> Some(data_index)]

\* LazyArray::get_or_create_data_index and get_or_create_data_index_with
get_or_create_data_index(a, real_index, default, junk) ==
    LET found == get_data_index(a, real_index, junk)
    IN  IF IsSome(found)
        THEN [array |-> a, ret |-> found]
        ELSE LET created == create_data_index(a, real_index, default)
             IN  [array |-> created.array,
                  ret |-> created.ret]

\* self.data.add(data_index).as_ref()
data_ref(a, data_index, junk) == read(a.data[data_index], junk[3])

\* a get that wraps an index beyond the bounds around instead of refusing it
get_wrapping(a, index, junk) ==
    LET found == get_data_index(a, index % a.size, junk)
    IN  IF IsSome(found) THEN Some(data_ref(a, Unwrap(found), junk)) ELSE None

\* LazyArray::get
get(a, index, junk) ==
    IF index >= a.size
    THEN None
    ELSE LET found == get_data_index(a, index, junk)
         IN  IF IsSome(found) THEN Some(data_ref(a, Unwrap(found), junk)) ELSE None

\* LazyArray::get_or: the array after the call and the returned option
get_or(a, index, default, junk) ==
    IF index >= a.size
    THEN [array |-> a, ret |-> None]
    ELSE LET r == get_or_create_data_index(a, index, default, junk)
         IN  [array |-> r.array,
              ret |-> IF r.ret = Panic THEN Panic
                      ELSE Some(data_ref(r.array, Unwrap(r.ret), junk))]

\* T::default() of the integer element types
default_value == 0

\* LazyArray::get_or_default, get_or_default_with
get_or_default(a, index, junk) == get_or(a, index, default_value, junk)

\* LazyArray::set: the array after the call, ret Panic when the assert fails
set(a, index, element, junk) ==
    IF ~(index < a.size)
    THEN [array |-> a, ret |-> Panic]
    ELSE LET found == get_data_index(a, index, junk)
         IN  IF IsSome(found)
             THEN [array |-> [a EXCEPT !.data[Unwrap(found)] = Init(element)],
                   ret |-> <<>>]
             ELSE LET created == create_data_index(a, index, element)
                  IN  [array |-> created.array,
                       ret |-> IF created.ret = Panic THEN Panic ELSE <<>>]

\* the index arguments of a call: every index inside the bounds and one outside
LazyIndices == 0..lazy.size
LazyValues == 1..MaxValue

LazyPanicked == lazy_ret.ret = Panic

\* let mut lazy_array = LazyArray::new(size)
LazyInit ==
    /\ \E size \in 1..MaxLazySize :
        /\ lazy = LazyArray(size)
        /\ lazy_written = [i \in 0..(size - 1) |-> None]
    /\ lazy_ret = [op |-> "new", index |-> 0, ret |-> <<>>]

\* lazy_array.set(index, element)
LazySet ==
    /\ ~LazyPanicked
    /\ \E index \in LazyIndices, element \in LazyValues, junk \in Junk(lazy) :
        LET r == set(lazy, index, element, junk)
        IN  /\ lazy' = r.array
            /\ lazy_ret' = [op |-> "set", index |-> index, ret |-> r.ret]
            /\ lazy_written' = IF r.ret = Panic THEN lazy_written
                               ELSE [lazy_written EXCEPT ![index] = Some(element)]
    /\ UNCHANGED all_but_lazy

\* lazy_array.get(index)
LazyGet ==
    /\ ~LazyPanicked
    /\ \E index \in LazyIndices, junk \in Junk(lazy) :
        lazy_ret' = [op |-> "get", index |-> index, ret |-> get(lazy, index, junk)]
    /\ UNCHANGED <<lazy, lazy_written>>
    /\ UNCHANGED all_but_lazy

\* what a get_or call writes: the default, at an index inside the bounds that
\* holds no value yet
written_by_get_or(index, default) ==
    IF index < lazy.size /\ lazy_written[index] = None
    THEN [lazy_written EXCEPT ![index] = Some(default)]
    ELSE lazy_written

\* lazy_array.get_or(index, default)
LazyGetOr ==
    /\ ~LazyPanicked
    /\ \E index \in LazyIndices, default \in LazyValues, junk \in Junk(lazy) :
        LET r == get_or(lazy, index, default, junk)
        IN  /\ lazy' = r.array
            /\ lazy_ret' = [op |-> "get_or", index |-> index, ret |-> r.ret]
            /\ lazy_written' = written_by_get_or(index, default)
    /\ UNCHANGED all_but_lazy

\* lazy_array.get_or_default(index)
LazyGetOrDefault ==
    /\ ~LazyPanicked
    /\ \E index \in LazyIndices, junk \in Junk(lazy) :
        LET r == get_or_default(lazy, index, junk)
        IN  /\ lazy' = r.array
            /\ lazy_ret' = [op |-> "get_or_default", index |-> index, ret |-> r.ret]
            /\ lazy_written' = written_by_get_or(index, default_value)
    /\ UNCHANGED all_but_lazy

InitLazy ==
    /\ LaterObjectsIdle
    /\ LazyInit
    /\ graph = Idle /\ source_vertex = Idle /\ algo = Idle /\ elements = Idle
    /\ out = Idle /\ boruvka = Idle
    /\ iqs = Idle /\ idfs = Idle /\ sssd_bfs = Idle /\ sssd_dijkstra = Idle
    /\ parallel_bfs = Idle /\ parallel_dijkstra = Idle
    /\ MoreEnumeratorsIdle

NextLazy == LazySet \/ LazyGet \/ LazyGetOr \/ LazyGetOrDefault

SpecLazy == InitLazy /\ [][NextLazy]_vars

\* --------------------------------------------------- incremental quick sort
MaxLen == 5
MaxKey == 3

\* the elements are pairs <<key, position in the input>>; the comparator orders
\* them by key alone, so elements with equal keys are equivalent, not equal
compares_lt(x, y) == x[1] < y[1]

\* slices are indexed from 0
swap(a, i, j) == [a EXCEPT ![i + 1] = a[j + 1], ![j + 1] = a[i + 1]]

\* the first phase of partition: for j in 0..a.len() - 1
RECURSIVE partition_loop(_, _, _, _)
partition_loop(a, pivot_value, i, j) ==
    IF j >= Len(a) - 1
    THEN [a |-> a, i |-> i]
    ELSE IF compares_lt(a[j + 1], pivot_value)
         THEN partition_loop(swap(a, i, j), pivot_value, i + 1, j + 1)
         ELSE partition_loop(a, pivot_value, i, j + 1)

\* a[from..=to].iter().position(|y| comparator.compares_lt(&pivot_value, y))
position(a, pivot_value, from, to) ==
    LET hits == {k \in from..to : compares_lt(pivot_value, a[k + 1])}
    IN  IF hits = {} THEN None
        ELSE Some((CHOOSE k \in hits : \A h \in hits : k <= h) - from)

\* partition that moves the pivot to the middle without the position search
partition_to_mid(a) ==
    LET pivot_value == a[Len(a)]
        first == partition_loop(a, pivot_value, 0, 0)
        leftmost_pivot_position == first.i
        mid_position == Len(a) \div 2
    IN  [a |-> swap(first.a, first.i, Len(a) - 1),
         ret |-> IF mid_position <= leftmost_pivot_position
                 THEN leftmost_pivot_position ELSE mid_position]

\* partition without its second phase: the pivot stays at its leftmost position
partition_leftmost(a) ==
    LET pivot_value == a[Len(a)]
        first == partition_loop(a, pivot_value, 0, 0)
    IN  [a |-> swap(first.a, first.i, Len(a) - 1), ret |-> first.i]

\* partition that leaves the pivot value at the end of the slice
partition_without_pivot_swap(a) ==
    LET pivot_value == a[Len(a)]
        first == partition_loop(a, pivot_value, 0, 0)
        b == first.a
        leftmost_pivot_position == first.i
        mid_position == Len(a) \div 2
    IN  IF mid_position <= leftmost_pivot_position
        THEN [a |-> b, ret |-> leftmost_pivot_position]
        ELSE LET p == position(b, pivot_value, leftmost_pivot_position + 1, mid_position)
             IN  [a |-> b,
                  ret |-> IF IsSome(p) THEN Unwrap(p) + leftmost_pivot_position
                          ELSE mid_position]

\* partition of a non-empty slice: the slice after the call and the pivot index
partition(a) ==
    LET pivot_value == a[Len(a)]
        first == partition_loop(a, pivot_value, 0, 0)
        b == swap(first.a, first.i, Len(a) - 1)
        leftmost_pivot_position == first.i
        mid_position == Len(a) \div 2
    IN  IF mid_position <= leftmost_pivot_position
        THEN [a |-> b, ret |-> leftmost_pivot_position]
        ELSE LET p == position(b, pivot_value, leftmost_pivot_position + 1, mid_position)
             IN  [a |-> b,
                  ret |-> IF IsSome(p) THEN Unwrap(p) + leftmost_pivot_position
                          ELSE mid_position]

\* the while loop of IQS::next; slicing a[idx..top] with idx > top panics
RECURSIVE iqs_loop(_, _, _, _)
iqs_loop(a, s, idx, top) ==
    IF idx = top
    THEN [a |-> a, s |-> s, top |-> top, panic |-> FALSE]
    ELSE IF idx > top \/ top > Len(a)
         THEN [a |-> a, s |-> s, top |-> top, panic |-> TRUE]
         ELSE LET r == partition(SubSeq(a, idx + 1, top))
                  pidx == r.ret + idx
              IN  iqs_loop(SubSeq(a, 1, idx) \o r.a \o SubSeq(a, top + 1, Len(a)),
                           Append(s, pidx), idx, pidx)

\* IQS::next that leaves the position it returns on the stack
iqs_next_without_pop(st) ==
    IF st.idx >= Len(st.a)
    THEN [st EXCEPT !.ret = None]
    ELSE IF st.s = <<>>
         THEN [st EXCEPT !.ret = Panic]
         ELSE LET r == iqs_loop(st.a, st.s, st.idx, st.s[Len(st.s)])
              IN  IF r.panic \/ r.top >= Len(r.a)
                  THEN [st EXCEPT !.ret = Panic]
                  ELSE [a |-> r.a,
                        s |-> r.s,
                        idx |-> st.idx + 1,
                        ret |-> Some(r.a[r.top + 1])]

\* IQS::next: the enumerator after the call, its return value in ret
iqs_next(st) ==
    IF st.idx >= Len(st.a)
    THEN [st EXCEPT !.ret = None]
    ELSE IF st.s = <<>>
         THEN [st EXCEPT !.ret = Panic]
         ELSE LET r == iqs_loop(st.a, st.s, st.idx, st.s[Len(st.s)])
              IN  IF r.panic \/ r.top >= Len(r.a)
                  THEN [st EXCEPT !.ret = Panic]
                  ELSE [a |-> r.a,
                        s |-> SubSeq(r.s, 1, Len(r.s) - 1),
                        idx |-> st.idx + 1,
                        ret |-> Some(r.a[r.top + 1])]

\* the slices of up to MaxLen elements with keys 1..MaxKey
Slices ==
    UNION {{[i \in 1..len |-> <<keys[i], i>>] : keys \in [1..len -> 1..MaxKey]}
           : len \in 0..MaxLen}

\* IQS::with_comparator
IqsInit ==
    /\ out = <<>>
    /\ iqs = [a |-> elements, s |-> <<Len(elements)>>, idx |-> 0, ret |-> None]

\* one call of IQS::next
IqsNext ==
    /\ ~Panicked
    /\ Len(out) < Len(elements) + MaxExtraCalls
    /\ iqs' = iqs_next(iqs)
    /\ out' = Append(out, iqs'.ret)
    /\ UNCHANGED all_but_iqs

InitIqs ==
    /\ LaterObjectsIdle
    /\ elements \in Slices
    /\ IqsInit
    /\ graph = Idle /\ source_vertex = Idle /\ algo = Idle
    /\ lazy = Idle /\ lazy_written = Idle /\ lazy_ret = Idle
    /\ boruvka = Idle /\ idfs = Idle /\ sssd_bfs = Idle /\ sssd_dijkstra = Idle
    /\ parallel_bfs = Idle /\ parallel_dijkstra = Idle
    /\ MoreEnumeratorsIdle

SpecIqs == InitIqs /\ [][IqsNext]_vars

\* ------------------------------------------------------- depth first search
MaxDfsVertices == 3

Discovered(u) == <<"Discovered", u>>
Finished(u) == <<"Finished", u>>
BackEdge(u, v, d) == <<"BackEdge", u, v, d>>
TreeEdge(u, v, d) == <<"TreeEdge", u, v, d>>

\* for u in self.dfs_loop.by_ref() without the test for Color::White
next_start_any(n, colors, from) ==
    IF from < n THEN Some(from) ELSE None

\* a dfs_loop that holds the first vertex only
next_start_once(n, colors, from) ==
    IF from = 0 THEN Some(0) ELSE None

\* for u in self.dfs_loop.by_ref(): the first white vertex the range still holds
next_start(n, colors, from) ==
    LET white == {u \in from..(n - 1) : colors[u] = "White"}
    IN  IF white = {} THEN None
        ELSE Some(CHOOSE u \in white : \A w \in white : u <= w)

\* for a in adjacencies.by_ref() without the arm that ignores black sinks
next_adjacency_any(adj, colors, from) ==
    IF from <= Len(adj) THEN Some(from) ELSE None

\* for a in adjacencies.by_ref(): the first adjacency the iterator still holds
\* whose sink is not black
next_adjacency(adj, colors, from) ==
    LET live == {k \in from..Len(adj) : colors[adj[k][1]] # "Black"}
    IN  IF live = {} THEN None
        ELSE Some(CHOOSE k \in live : \A l \in live : k <= l)

\* IDFS::new
IDFS(n) ==
    [colors |-> [u \in 0..(n - 1) |-> "White"],
     dfs_visit_stack |-> <<>>,
     dfs_loop |-> 0,
     ret |-> None]

\* the first step of IDFS::next: find the next start vertex for dfs-visit
idfs_start(g, st) ==
    IF st.dfs_visit_stack # <<>>
    THEN st
    ELSE LET u == next_start(num_vertices(g), st.colors, st.dfs_loop)
         IN  IF IsSome(u)
             THEN [st EXCEPT !.dfs_visit_stack = <<[vertex |-> Unwrap(u), next |-> 1]>>,
                             !.dfs_loop = Unwrap(u) + 1]
             ELSE [st EXCEPT !.dfs_loop = num_vertices(g)]

\* IDFS::next that leaves a finished vertex on the stack
idfs_next_without_pop(g, st0) ==
    LET st == idfs_start(g, st0)
        depth == Len(st.dfs_visit_stack)
    IN  IF depth = 0
        THEN [st EXCEPT !.ret = None]
        ELSE LET u == st.dfs_visit_stack[depth].vertex
                 adj == adjacencies(g, u)
             IN  CASE st.colors[u] = "White" ->
                        [st EXCEPT !.colors[u] = "Gray", !.ret = Some(Discovered(u))]
                   [] st.colors[u] = "Gray" ->
                        LET k == next_adjacency(adj, st.colors, st.dfs_visit_stack[depth].next)
                        IN  IF IsSome(k)
                            THEN LET a == adj[Unwrap(k)]
                                     v == a[1]
                                     resumed == [st.dfs_visit_stack EXCEPT
                                                    ![depth].next = Unwrap(k) + 1]
                                 IN  IF st.colors[v] = "White"
                                     THEN [st EXCEPT
                                             !.dfs_visit_stack =
                                                 Append(resumed, [vertex |-> v, next |-> 1]),
                                             !.ret = Some(TreeEdge(u, v, a[2]))]
                                     ELSE [st EXCEPT
                                             !.dfs_visit_stack = resumed,
                                             !.ret = Some(BackEdge(u, v, a[2]))]
                            ELSE [st EXCEPT
                                    !.colors[u] = "Black",
                                    !.ret = Some(Finished(u))]
                   [] OTHER -> [st EXCEPT !.ret = Panic]

\* IDFS::next: the enumerator after the call, its return value in ret
idfs_next(g, st0) ==
    LET st == idfs_start(g, st0)
        depth == Len(st.dfs_visit_stack)
    IN  IF depth = 0
        THEN [st EXCEPT !.ret = None]
        ELSE LET u == st.dfs_visit_stack[depth].vertex
                 adj == adjacencies(g, u)
             IN  CASE st.colors[u] = "White" ->
                        [st EXCEPT !.colors[u] = "Gray", !.ret = Some(Discovered(u))]
                   [] st.colors[u] = "Gray" ->
                        LET k == next_adjacency(adj, st.colors, st.dfs_visit_stack[depth].next)
                        IN  IF IsSome(k)
                            THEN LET a == adj[Unwrap(k)]
                                     v == a[1]
                                     resumed == [st.dfs_visit_stack EXCEPT
                                                    ![depth].next = Unwrap(k) + 1]
                                 IN  IF st.colors[v] = "White"
                                     THEN [st EXCEPT
                                             !.dfs_visit_stack =
                                                 Append(resumed, [vertex |-> v, next |-> 1]),
                                             !.ret = Some(TreeEdge(u, v, a[2]))]
                                     ELSE [st EXCEPT
                                             !.dfs_visit_stack = resumed,
                                             !.ret = Some(BackEdge(u, v, a[2]))]
                            ELSE [st EXCEPT
                                    !.colors[u] = "Black",
                                    !.dfs_visit_stack = SubSeq(st.dfs_visit_stack, 1, depth - 1),
                                    !.ret = Some(Finished(u))]
                   [] OTHER -> [st EXCEPT !.ret = Panic]

\* dfs_visit and its loop over the adjacencies of u from position k on: the
\* colors after the call and the events passed to the visitor, after events
RECURSIVE dfs_visit(_, _, _, _), dfs_visit_loop(_, _, _, _, _)
dfs_visit(g, u, colors, events) ==
    dfs_visit_loop(g, u, 1, [colors EXCEPT ![u] = "Gray"], Append(events, Discovered(u)))

dfs_visit_loop(g, u, k, colors, events) ==
    LET adj == adjacencies(g, u)
    IN  IF k > Len(adj)
        THEN [colors |-> [colors EXCEPT ![u] = "Black"],
              events |-> Append(events, Finished(u))]
        ELSE LET v == adj[k][1]
                 d == adj[k][2]
             IN  CASE colors[v] = "White" ->
                        LET r == dfs_visit(g, v, colors, Append(events, TreeEdge(u, v, d)))
                        IN  dfs_visit_loop(g, u, k + 1, r.colors, r.events)
                   [] colors[v] = "Gray" ->
                        dfs_visit_loop(g, u, k + 1, colors, Append(events, BackEdge(u, v, d)))
                   [] OTHER -> dfs_visit_loop(g, u, k + 1, colors, events)

\* the loop of dfs over the vertices from u on
RECURSIVE dfs_loop(_, _, _, _)
dfs_loop(g, u, colors, events) ==
    IF u >= num_vertices(g)
    THEN events
    ELSE IF colors[u] = "White"
         THEN LET r == dfs_visit(g, u, colors, events)
              IN  dfs_loop(g, u + 1, r.colors, r.events)
         ELSE dfs_loop(g, u + 1, colors, events)

\* dfs: the events the visitor is called with, in order
dfs(g) == dfs_loop(g, 0, [u \in Vertices(g) |-> "White"], <<>>)

\* the ordered pairs of n vertices, self-loops included, in lexicographic order
RECURSIVE OrderedPairs(_, _, _)
OrderedPairs(n, u, v) ==
    IF u >= n THEN <<>>
    ELSE IF v >= n THEN OrderedPairs(n, u + 1, 0)
         ELSE <<<<u, v>>>> \o OrderedPairs(n, u, v + 1)

Reverse(s) == [i \in 1..Len(s) |-> s[Len(s) + 1 - i]]

\* the directed graphs on n vertices: any set of edges, listed in lexicographic
\* order or in its reverse, every edge with data ws[i] (0: no such edge)
DirectedGraphs(n, weights) ==
    LET pairs == OrderedPairs(n, 0, 0)
    IN  UNION {{DirectedAdjacencyArrayGraph(n, WeightedEdgeList(pairs, ws)),
                DirectedAdjacencyArrayGraph(n, Reverse(WeightedEdgeList(pairs, ws)))}
               : ws \in [1..Len(pairs) -> {0} \cup weights]}

\* IDFS::new(graph.num_vertices())
IdfsInit ==
    /\ out = <<>>
    /\ idfs = IDFS(num_vertices(graph))

\* one call of IDFS::next
IdfsNext ==
    /\ ~Panicked
    /\ Len(out) < Len(dfs(graph)) + MaxExtraCalls
    /\ idfs' = idfs_next(graph, idfs)
    /\ out' = Append(out, idfs'.ret)
    /\ UNCHANGED all_but_idfs

InitIdfs ==
    /\ LaterObjectsIdle
    /\ \E n \in 1..MaxDfsVertices : graph \in DirectedGraphs(n, {1})
    /\ IdfsInit
    /\ source_vertex = Idle /\ algo = Idle /\ elements = Idle
    /\ lazy = Idle /\ lazy_written = Idle /\ lazy_ret = Idle
    /\ boruvka = Idle /\ iqs = Idle /\ sssd_bfs = Idle /\ sssd_dijkstra = Idle
    /\ parallel_bfs = Idle /\ parallel_dijkstra = Idle
    /\ MoreEnumeratorsIdle

SpecIdfs == InitIdfs /\ [][IdfsNext]_vars

\* ------------------------------------------- single source shortest distances
MaxSdVertices == 3
MaxSdWeight == 2

\* vertices of the graphs of the Kruskal, Prim and EnumMST runs
MaxTreeVertices == 5

\* ShortestDistancePartial: (source, target, Option<distance>)
Partial(s, v, d) == <<s, v, d>>

\* graph.neighbors(u, Direction::OUT)
neighbors(g, u) == [k \in 1..Len(adjacencies(g, u)) |-> adjacencies(g, u)[k][1]]

\* unweighted_lazy::SssdEnumerator::new
SssdBfs(g, s, junk) ==
    [phase |-> "CreditAccumulationPhase",
     source |-> s,
     distances |-> set(LazyArray(num_vertices(g)), s, 0, junk).array,
     queue |-> <<s>>,
     iterator |-> 0,
     ret |-> None]

\* for v in graph.neighbors(u, Direction::OUT), from the k-th neighbor on
RECURSIVE bfs_visit_neighbors(_, _, _, _, _, _)
bfs_visit_neighbors(distances, queue, nbrs, k, new_d, junk) ==
    IF k > Len(nbrs)
    THEN [distances |-> distances, queue |-> queue, panic |-> FALSE]
    ELSE IF get(distances, nbrs[k], junk) = None
         THEN LET w == set(distances, nbrs[k], new_d, junk)
              IN  IF w.ret = Panic
                  THEN [distances |-> distances, queue |-> queue, panic |-> TRUE]
                  ELSE bfs_visit_neighbors(w.array, Append(queue, nbrs[k]),
                                           nbrs, k + 1, new_d, junk)
         ELSE bfs_visit_neighbors(distances, queue, nbrs, k + 1, new_d, junk)

\* the vertices from iterator on, without the test for a missing distance
unreached_any(n, unreached, iterator) == {v \in iterator..(n - 1) : TRUE}

\* for v in iterator { match distances.get(v) { Some(_) => continue, .. } }:
\* the vertices the iterator still holds that have no distance
unreached_from(n, unreached, iterator) == {v \in iterator..(n - 1) : unreached[v]}

\* the output finalization phase of both enumerators; unreached[v] tells
\* whether distances holds no value for v
finalization_next(st, n, unreached) ==
    LET rest == unreached_from(n, unreached, st.iterator)
    IN  IF rest = {}
        THEN [st EXCEPT !.iterator = n, !.ret = None]
        ELSE LET v == CHOOSE x \in rest : \A y \in rest : x <= y
             IN  [st EXCEPT !.iterator = v + 1, !.ret = Some(Partial(st.source, v, None))]

\* unweighted_lazy::SssdEnumerator::next; reading the distance of a queued
\* vertex that has none (unwrap_unchecked) is reported as Panic
sssd_bfs_next(g, st, junk) ==
    IF st.phase = "CreditAccumulationPhase" /\ st.queue # <<>>
    THEN LET u == Head(st.queue)
             d == get(st.distances, u, junk)
         IN  IF d = None
             THEN [st EXCEPT !.ret = Panic]
             ELSE LET r == bfs_visit_neighbors(st.distances, Tail(st.queue),
                                               neighbors(g, u), 1, Unwrap(d) + 1, junk)
                  IN  IF r.panic
                      THEN [st EXCEPT !.ret = Panic]
                      ELSE [st EXCEPT !.distances = r.distances,
                                      !.queue = r.queue,
                                      !.ret = Some(Partial(st.source, u, d))]
    ELSE finalization_next(
            [st EXCEPT !.phase = "OutputFinalizationPhase",
                       !.iterator = IF st.phase = "CreditAccumulationPhase" THEN 0 ELSE @],
            num_vertices(g),
            [v \in Vertices(g) |-> get(st.distances, v, junk) = None])

\* Ord of the tuples (EW, I) on the heap
tuple_lt(a, b) == a[1] < b[1] \/ (a[1] = b[1] /\ a[2] < b[2])

\* BinaryHeap<(EW, I), MinComparator>::push; the heap is kept as the sorted
\* sequence of its items
heap_push(q, e) ==
    LET before == SelectSeq(q, LAMBDA x : ~tuple_lt(e, x))
        after == SelectSeq(q, LAMBDA x : tuple_lt(e, x))
    IN  before \o <<e>> \o after

\* a pop that takes the largest item
heap_pop_max(q) == [item |-> q[Len(q)], heap |-> SubSeq(q, 1, Len(q) - 1)]

\* BinaryHeap<(EW, I), MinComparator>::pop on a non-empty heap
heap_pop(q) == [item |-> Head(q), heap |-> Tail(q)]

\* a test that keeps every popped entry
never_deprecated(d, distances, u) == FALSE

\* if d > distances[u.index()].unwrap_unchecked()
deprecated(d, distances, u) == d > Unwrap(distances[u])

\* a visit that pushes the shorter distance without recording it
RECURSIVE dijkstra_visit_unrecorded(_, _, _, _, _)
dijkstra_visit_unrecorded(distances, priority_queue, adj, k, d) ==
    IF k > Len(adj)
    THEN [distances |-> distances, priority_queue |-> priority_queue]
    ELSE LET v == adj[k][1]
             new_d == d + adj[k][2]
         IN  IF distances[v] = None \/ new_d < Unwrap(distances[v])
             THEN dijkstra_visit_unrecorded(distances,
                                            heap_push(priority_queue, <<new_d, v>>),
                                            adj, k + 1, d)
             ELSE dijkstra_visit_unrecorded(distances, priority_queue, adj, k + 1, d)

\* for (v, w) in graph.adjacencies(u, Direction::OUT), from the k-th on
RECURSIVE dijkstra_visit_adjacencies(_, _, _, _, _)
dijkstra_visit_adjacencies(distances, priority_queue, adj, k, d) ==
    IF k > Len(adj)
    THEN [distances |-> distances, priority_queue |-> priority_queue]
    ELSE LET v == adj[k][1]
             new_d == d + adj[k][2]
         IN  IF distances[v] = None \/ new_d < Unwrap(distances[v])
             THEN dijkstra_visit_adjacencies([distances EXCEPT ![v] = Some(new_d)],
                                             heap_push(priority_queue, <<new_d, v>>),
                                             adj, k + 1, d)
             ELSE dijkstra_visit_adjacencies(distances, priority_queue, adj, k + 1, d)

\* while let Some((d, u)) = priority_queue.pop(): pops up to the first entry
\* that is not deprecated and visits its adjacencies
RECURSIVE dijkstra_pop(_, _, _)
dijkstra_pop(g, distances, priority_queue) ==
    IF priority_queue = <<>>
    THEN [distances |-> distances, priority_queue |-> priority_queue, item |-> None]
    ELSE LET p == heap_pop(priority_queue)
             d == p.item[1]
             u == p.item[2]
         IN  IF deprecated(d, distances, u)
             THEN dijkstra_pop(g, distances, p.heap)
             ELSE LET r == dijkstra_visit_adjacencies(distances, p.heap,
                                                      adjacencies(g, u), 1, d)
                  IN  [distances |-> r.distances, priority_queue |-> r.priority_queue,
                       item |-> Some(p.item)]

\* a constructor that starts the search at vertex 0 whatever the source
SssdDijkstraFromZero(g, s) ==
    [phase |-> "CreditAccumulationPhase",
     source |-> s,
     distances |-> [v \in Vertices(g) |-> IF v = 0 THEN Some(0) ELSE None],
     priority_queue |-> <<<<0, 0>>>>,
     iterator |-> 0,
     ret |-> None]

\* weighted::SssdEnumerator::new
SssdDijkstra(g, s) ==
    [phase |-> "CreditAccumulationPhase",
     source |-> s,
     distances |-> [v \in Vertices(g) |-> IF v = s THEN Some(0) ELSE None],
     priority_queue |-> <<<<0, s>>>>,
     iterator |-> 0,
     ret |-> None]

\* weighted::SssdEnumerator::next
sssd_dijkstra_next(g, st) ==
    LET r == IF st.phase = "CreditAccumulationPhase"
             THEN dijkstra_pop(g, st.distances, st.priority_queue)
             ELSE [distances |-> st.distances, priority_queue |-> st.priority_queue,
                   item |-> None]
    IN  IF IsSome(r.item)
        THEN [st EXCEPT !.distances = r.distances,
                        !.priority_queue = r.priority_queue,
                        !.ret = Some(Partial(st.source, Unwrap(r.item)[2],
                                             Some(Unwrap(r.item)[1])))]
        ELSE finalization_next(
                [st EXCEPT !.phase = "OutputFinalizationPhase",
                           !.priority_queue = r.priority_queue,
                           !.iterator = IF st.phase = "CreditAccumulationPhase" THEN 0 ELSE @],
                num_vertices(g),
                [v \in Vertices(g) |-> r.distances[v] = None])

\* the loop of the batch dijkstra function
RECURSIVE dijkstra_loop(_, _, _)
dijkstra_loop(g, distances, priority_queue) ==
    LET r == dijkstra_pop(g, distances, priority_queue)
    IN  IF IsSome(r.item)
        THEN dijkstra_loop(g, r.distances, r.priority_queue)
        ELSE r.distances

\* dijkstra: the vector of distances from source
dijkstra(g, s) ==
    dijkstra_loop(g, [v \in Vertices(g) |-> IF v = s THEN Some(0) ELSE None], <<<<0, s>>>>)

\* the hop distances from s: the vertices first reached in layer d + 1 are the
\* out-neighbors of layer d that no earlier layer holds
RECURSIVE hop_layers(_, _, _, _)
hop_layers(g, dist, frontier, d) ==
    LET reached == {v \in Vertices(g) :
                      /\ dist[v] = None
                      /\ \E u \in frontier : v \in Range(neighbors(g, u))}
    IN  IF reached = {} THEN dist
        ELSE hop_layers(g, [v \in Vertices(g) |->
                               IF v \in reached THEN Some(d + 1) ELSE dist[v]],
                        reached, d + 1)

hop_distances(g, s) ==
    hop_layers(g, [v \in Vertices(g) |-> IF v = s THEN Some(0) ELSE None], {s}, 0)

\* the ordered pairs of distinct vertices among n, in lexicographic order
LoopFreePairs(n) == SelectSeq(OrderedPairs(n, 0, 0), LAMBDA p : p[1] # p[2])

\* the edge list that holds pairs[k] with weight w where ws[k] = Some(w)
OptionalEdgeList(pairs, ws) ==
    LET present == SelectSeq([k \in 1..Len(pairs) |-> k], LAMBDA k : IsSome(ws[k]))
    IN  [i \in 1..Len(present) |->
            <<pairs[present[i]][1], pairs[present[i]][2], Unwrap(ws[present[i]])>>]

\* the directed graphs on n vertices without self-loops whose edges weigh
\* 0..MaxSdWeight
WeightedDigraphs(n) ==
    {DirectedAdjacencyArrayGraph(n, OptionalEdgeList(LoopFreePairs(n), ws)) :
        ws \in [1..Len(LoopFreePairs(n)) -> {None} \cup {Some(w) : w \in 0..MaxSdWeight}]}

\* SssdEnumerator::new(graph, source) of the enumerator algo names
SssdInit ==
    /\ out = <<>>
    /\ sssd_bfs = IF algo = "enum-bfs-lazy"
                  THEN SssdBfs(graph, source_vertex, <<0, 0, 0>>) ELSE Idle
    /\ sssd_dijkstra = IF algo = "enum-dijkstra"
                       THEN SssdDijkstra(graph, source_vertex) ELSE Idle

\* one call of unweighted_lazy::SssdEnumerator::next
SssdBfsNext ==
    /\ algo = "enum-bfs-lazy"
    /\ ~Panicked
    /\ Len(out) < num_vertices(graph) + MaxExtraCalls
    /\ \E junk \in Junk(sssd_bfs.distances) :
        sssd_bfs' = sssd_bfs_next(graph, sssd_bfs, junk)
    /\ out' = Append(out, sssd_bfs'.ret)
    /\ UNCHANGED all_but_sssd_bfs

\* one call of weighted::SssdEnumerator::next
SssdDijkstraNext ==
    /\ algo = "enum-dijkstra"
    /\ ~Panicked
    /\ Len(out) < num_vertices(graph) + MaxExtraCalls
    /\ sssd_dijkstra' = sssd_dijkstra_next(graph, sssd_dijkstra)
    /\ out' = Append(out, sssd_dijkstra'.ret)
    /\ UNCHANGED all_but_sssd_dijkstra

InitSssd ==
    /\ LaterObjectsIdle
    /\ \E n \in 1..MaxSdVertices :
        /\ graph \in WeightedDigraphs(n)
        /\ source_vertex \in 0..(n - 1)
    /\ algo \in {"enum-bfs-lazy", "enum-dijkstra"}
    /\ SssdInit
    /\ elements = Idle
    /\ lazy = Idle /\ lazy_written = Idle /\ lazy_ret = Idle
    /\ boruvka = Idle /\ iqs = Idle /\ idfs = Idle
    /\ parallel_bfs = Idle /\ parallel_dijkstra = Idle
    /\ MoreEnumeratorsIdle

NextSssd == SssdBfsNext \/ SssdDijkstraNext

SpecSssd == InitSssd /\ [][NextSssd]_vars

\* SSSD on graphs with self-loops
MaxLoopEdges == 4

\* the directed graphs on n vertices with at most MaxLoopEdges edges,
\* self-loops included, whose edges weigh 0 or 1
LoopedDigraphs(n) ==
    {DirectedAdjacencyArrayGraph(n, OptionalEdgeList(OrderedPairs(n, 0, 0), ws)) :
        ws \in {f \in [1..(n * n) -> {None, Some(0), Some(1)}] :
                    Cardinality({k \in 1..(n * n) : IsSome(f[k])}) <= MaxLoopEdges}}

InitSssdLoops ==
    /\ LaterObjectsIdle
    /\ \E n \in 1..MaxSdVertices :
        /\ graph \in LoopedDigraphs(n)
        /\ source_vertex \in 0..(n - 1)
    /\ algo \in {"enum-bfs-lazy", "enum-dijkstra"}
    /\ SssdInit
    /\ elements = Idle
    /\ lazy = Idle /\ lazy_written = Idle /\ lazy_ret = Idle
    /\ boruvka = Idle /\ iqs = Idle /\ idfs = Idle
    /\ parallel_bfs = Idle /\ parallel_dijkstra = Idle
    /\ MoreEnumeratorsIdle

SpecSssdLoops == InitSssdLoops /\ [][NextSssd]_vars

\* --------------------------------------------- sorted all pairs, by hop count
\* sssd::unweighted::SssdEnumerator::new: the hop-distance enumerator with a
\* plain vector of distances
UnweightedSssd(g, s) ==
    [phase |-> "CreditAccumulationPhase",
     source |-> s,
     distances |-> [v \in Vertices(g) |-> IF v = s THEN Some(0) ELSE None],
     queue |-> <<s>>,
     iterator |-> 0,
     ret |-> None]

\* the neighbors of the dequeued vertex, from the k-th on: each one without a
\* distance gets new_d and is queued
RECURSIVE unweighted_visit_neighbors(_, _, _, _, _)
unweighted_visit_neighbors(distances, queue, nbrs, k, new_d) ==
    IF k > Len(nbrs)
    THEN [distances |-> distances, queue |-> queue]
    ELSE IF distances[nbrs[k]] = None
         THEN unweighted_visit_neighbors([distances EXCEPT ![nbrs[k]] = Some(new_d)],
                                         Append(queue, nbrs[k]), nbrs, k + 1, new_d)
         ELSE unweighted_visit_neighbors(distances, queue, nbrs, k + 1, new_d)

\* sssd::unweighted::SssdEnumerator::next: one (source, vertex, hop distance)
\* per dequeue, then (source, v, None) for every vertex never reached
unweighted_sssd_next(g, st) ==
    IF st.phase = "CreditAccumulationPhase" /\ st.queue # <<>>
    THEN LET u == Head(st.queue)
             d == st.distances[u]
             r == unweighted_visit_neighbors(st.distances, Tail(st.queue),
                                             neighbors(g, u), 1, Unwrap(d) + 1)
         IN  [st EXCEPT !.distances = r.distances,
                        !.queue = r.queue,
                        !.ret = Some(Partial(st.source, u, d))]
    ELSE finalization_next(
            [st EXCEPT !.phase = "OutputFinalizationPhase",
                       !.iterator = IF st.phase = "CreditAccumulationPhase" THEN 0 ELSE @],
            num_vertices(g),
            [v \in Vertices(g) |-> st.distances[v] = None])

\* sssd::unweighted::sssd: the vector of hop distances from source
sssd(g, s) == hop_distances(g, s)

\* apsd_bfs: the matrix of the batch hop distances
apsd_bfs(g) == [u \in Vertices(g) |-> sssd(g, u)]

\* Iterator::peekable
Peekable(iter) == [iter |-> iter, peeked |-> None]

\* Peekable::next over the hop enumerator: the search after the call and the item
peekable_next(g, p) ==
    IF IsSome(p.peeked)
    THEN [search |-> [p EXCEPT !.peeked = None], ret |-> Unwrap(p.peeked)]
    ELSE LET it == unweighted_sssd_next(g, p.iter)
         IN  [search |-> [p EXCEPT !.iter = it], ret |-> it.ret]

\* Peekable::peek: the search after the call, the item in Unwrap(peeked)
peekable_peek(g, p) ==
    IF IsSome(p.peeked)
    THEN p
    ELSE LET it == unweighted_sssd_next(g, p.iter)
         IN  [iter |-> it, peeked |-> Some(it.ret)]

\* ParallelBfs::new behind the trivial iterator of prepare_enumeration
ParallelBfs(g) ==
    [trivial |-> 0,
     bfs_queue |-> None,
     current_hop_distance |-> 0,
     finalization_queue |-> <<>>,
     ret |-> None]

\* a finalization queue that drops the search
chain_dropped(finalization_queue, head_search) == finalization_queue

\* old_queue.chain(head_search); the queue is the sequence of chained searches
chain_search(finalization_queue, head_search) == Append(finalization_queue, head_search)

\* a guard that takes every distance for the current one
any_hop_distance(d, current_hop_distance) == TRUE

\* Some((_, _, Some(d))) if *d == self.current_hop_distance
same_hop_distance(d, current_hop_distance) == d = current_hop_distance

\* a driver that, whenever it settles its head search, also pulls the next
\* item of the search behind it
advance_two_searches(g, st) ==
    LET bfs_queue == Unwrap(st.bfs_queue)
    IN  IF bfs_queue = <<>>
        THEN st
        ELSE LET head_search == peekable_peek(g, Head(bfs_queue))
                 rest == IF Len(bfs_queue) >= 2
                         THEN <<peekable_peek(g, peekable_next(g, bfs_queue[2]).search)>>
                                \o SubSeq(bfs_queue, 3, Len(bfs_queue))
                         ELSE Tail(bfs_queue)
                 part == Unwrap(head_search.peeked)
             IN  CASE IsSome(part) /\ IsSome(Unwrap(part)[3])
                        /\ same_hop_distance(Unwrap(Unwrap(part)[3]), st.current_hop_distance) ->
                        [st EXCEPT !.bfs_queue = Some(<<head_search>> \o rest)]
                   [] IsSome(part) /\ IsSome(Unwrap(part)[3]) ->
                        [st EXCEPT !.bfs_queue = Some(Append(rest, head_search))]
                   [] IsSome(part) ->
                        [st EXCEPT !.bfs_queue = Some(rest),
                                   !.finalization_queue = chain_search(@, head_search)]
                   [] OTHER -> [st EXCEPT !.bfs_queue = Some(rest)]

\* a driver that moves every head search that has no result of the current
\* distance to the back of the queue, the exhausted ones included
advance_head_search_keeping(g, st) ==
    LET bfs_queue == Unwrap(st.bfs_queue)
    IN  IF bfs_queue = <<>>
        THEN st
        ELSE LET head_search == peekable_peek(g, Head(bfs_queue))
                 rest == Tail(bfs_queue)
                 part == Unwrap(head_search.peeked)
             IN  IF IsSome(part) /\ IsSome(Unwrap(part)[3])
                        /\ same_hop_distance(Unwrap(Unwrap(part)[3]), st.current_hop_distance)
                 THEN [st EXCEPT !.bfs_queue = Some(<<head_search>> \o rest)]
                 ELSE [st EXCEPT !.bfs_queue = Some(Append(rest, head_search))]

\* ParallelBfs::advance_head_search on an initialized bfs_queue
advance_head_search(g, st) ==
    LET bfs_queue == Unwrap(st.bfs_queue)
    IN  IF bfs_queue = <<>>
        THEN st
        ELSE LET head_search == peekable_peek(g, Head(bfs_queue))
                 rest == Tail(bfs_queue)
                 part == Unwrap(head_search.peeked)
             IN  CASE IsSome(part) /\ IsSome(Unwrap(part)[3])
                        /\ same_hop_distance(Unwrap(Unwrap(part)[3]), st.current_hop_distance) ->
                        [st EXCEPT !.bfs_queue = Some(<<head_search>> \o rest)]
                   [] IsSome(part) /\ IsSome(Unwrap(part)[3])
                        /\ ~same_hop_distance(Unwrap(Unwrap(part)[3]), st.current_hop_distance) ->
                        [st EXCEPT !.bfs_queue = Some(Append(rest, head_search))]
                   [] IsSome(part) /\ ~IsSome(Unwrap(part)[3]) ->
                        [st EXCEPT !.bfs_queue = Some(rest),
                                   !.finalization_queue = chain_search(@, head_search)]
                   [] OTHER -> [st EXCEPT !.bfs_queue = Some(rest)]

\* for _ in 0..queue_len { self.advance_head_search() }
RECURSIVE advance_head_searches(_, _, _)
advance_head_searches(g, st, times) ==
    IF times = 0 THEN st
    ELSE advance_head_searches(g, advance_head_search(g, st), times - 1)

\* ParallelBfs::initialize_searches
initialize_searches(g, st) ==
    LET bfs_queue == [i \in 1..num_vertices(g) |->
                         peekable_next(g, Peekable(UnweightedSssd(g, i - 1))).search]
        cycled == advance_head_searches(g, [st EXCEPT !.bfs_queue = Some(bfs_queue)],
                                        Len(bfs_queue))
    IN  [cycled EXCEPT !.current_hop_distance = 1]

\* Chain::next over the searches of the finalization queue: a search that is
\* exhausted is dropped unless it is the last of the chain
RECURSIVE finalization_queue_next(_, _)
finalization_queue_next(g, queue) ==
    IF queue = <<>>
    THEN [queue |-> queue, ret |-> None]
    ELSE LET r == peekable_next(g, Head(queue))
         IN  IF IsSome(r.ret) \/ Len(queue) = 1
             THEN [queue |-> <<r.search>> \o Tail(queue), ret |-> r.ret]
             ELSE finalization_queue_next(g, Tail(queue))

\* ParallelBfs::next
parallel_bfs_extension_next(g, st0) ==
    LET st == IF st0.bfs_queue = None THEN initialize_searches(g, st0) ELSE st0
        bfs_queue == Unwrap(st.bfs_queue)
    IN  IF bfs_queue = <<>>
        THEN LET f == finalization_queue_next(g, st.finalization_queue)
             IN  [st EXCEPT !.finalization_queue = f.queue, !.ret = f.ret]
        ELSE LET r == peekable_next(g, Head(bfs_queue))
                 solution_part == r.ret
                 higher == /\ IsSome(solution_part)
                           /\ IsSome(Unwrap(solution_part)[3])
                           /\ Unwrap(Unwrap(solution_part)[3]) > st.current_hop_distance
                 advanced == advance_head_search(g,
                                [st EXCEPT !.bfs_queue = Some(<<r.search>> \o Tail(bfs_queue)),
                                           !.current_hop_distance = IF higher THEN @ + 1 ELSE @])
             IN  [advanced EXCEPT !.ret = solution_part]

\* trivial_iterator.chain(extension_iterator).next() of unweighted_sorted
parallel_bfs_next(g, st) ==
    IF st.trivial < num_vertices(g)
    THEN [st EXCEPT !.trivial = @ + 1, !.ret = Some(Partial(st.trivial, st.trivial, Some(0)))]
    ELSE parallel_bfs_extension_next(g, st)

\* ------------------------------------------- sorted all pairs, by edge weight
\* apsd_dijkstra: the matrix of the batch distances
apsd_dijkstra(g) == [u \in Vertices(g) |-> dijkstra(g, u)]

\* Ordering::reverse
ordering_reverse(o) == IF o = Less THEN Greater ELSE IF o = Greater THEN Less ELSE Equal

\* the comparison of the distances of two parts without the final reverse()
dijkstra_compare_unreversed(l, r) ==
    CASE l[3] = None /\ r[3] = None -> Equal
      [] l[3] = None -> Greater
      [] r[3] = None -> Less
      [] OTHER -> cmp(Unwrap(l[3]), Unwrap(r[3]))

\* MinDijkstraComparator::compare on the parts of two heap entries
dijkstra_compare(l, r) ==
    ordering_reverse(CASE l[3] = None /\ r[3] = None -> Equal
                       [] l[3] = None -> Greater
                       [] r[3] = None -> Less
                       [] OTHER -> cmp(Unwrap(l[3]), Unwrap(r[3])))

\* the entries BinaryHeap::pop may return: those no entry is greater than; the
\* heap is kept as the sequence of its entries in source order
poppable(heap) ==
    {i \in 1..Len(heap) :
        \A j \in 1..Len(heap) : dijkstra_compare(heap[i].part, heap[j].part) # Less}

\* BinaryHeap::push
dijkstra_queue_push(heap, e) ==
    SelectSeq(heap, LAMBDA x : x.part[1] < e.part[1]) \o <<e>>
        \o SelectSeq(heap, LAMBDA x : x.part[1] > e.part[1])

\* ParallelDijkstra::new behind the trivial iterator of prepare_enumeration
ParallelDijkstra(g) == [trivial |-> 0, dijkstra_queue |-> None, ret |-> None]

\* the heap entries of searches that did not skip their self-distance
RECURSIVE dijkstra_instances_unskipped(_, _)
dijkstra_instances_unskipped(g, s) ==
    IF s >= num_vertices(g)
    THEN <<>>
    ELSE LET dijkstra_ == sssd_dijkstra_next(g, SssdDijkstra(g, s))
             first_part == dijkstra_.ret
         IN  (IF IsSome(first_part)
              THEN <<[part |-> Unwrap(first_part), dijkstra |-> dijkstra_]>>
              ELSE <<>>) \o dijkstra_instances_unskipped(g, s + 1)

\* ParallelDijkstra::initialize_searches: the heap entries of the sources from
\* source on
RECURSIVE dijkstra_instances(_, _)
dijkstra_instances(g, s) ==
    IF s >= num_vertices(g)
    THEN <<>>
    ELSE LET skipped == sssd_dijkstra_next(g, SssdDijkstra(g, s))
             dijkstra_ == sssd_dijkstra_next(g, skipped)
             first_part == dijkstra_.ret
         IN  (IF IsSome(first_part)
              THEN <<[part |-> Unwrap(first_part), dijkstra |-> dijkstra_]>>
              ELSE <<>>) \o dijkstra_instances(g, s + 1)

\* self.dijkstra_queue after the initialization at the head of next
initialized_dijkstra_queue(g, st) ==
    IF st.dijkstra_queue = None THEN dijkstra_instances(g, 0) ELSE Unwrap(st.dijkstra_queue)

\* ParallelDijkstra::next, the heap popping its entry number pick
parallel_dijkstra_extension_next(g, st, pick) ==
    LET dijkstra_queue == initialized_dijkstra_queue(g, st)
    IN  IF dijkstra_queue = <<>>
        THEN [st EXCEPT !.dijkstra_queue = Some(dijkstra_queue), !.ret = None]
        ELSE LET next_part == dijkstra_queue[pick].part
                 dijkstra_ == sssd_dijkstra_next(g, dijkstra_queue[pick].dijkstra)
                 popped == SubSeq(dijkstra_queue, 1, pick - 1)
                              \o SubSeq(dijkstra_queue, pick + 1, Len(dijkstra_queue))
             IN  [st EXCEPT
                    !.dijkstra_queue =
                        Some(IF IsSome(dijkstra_.ret)
                             THEN dijkstra_queue_push(popped,
                                     [part |-> Unwrap(dijkstra_.ret), dijkstra |-> dijkstra_])
                             ELSE popped),
                    !.ret = Some(next_part)]

\* trivial_iterator.chain(extension_iterator).next() of weighted_sorted
parallel_dijkstra_next(g, st, pick) ==
    IF st.trivial < num_vertices(g)
    THEN [st EXCEPT !.trivial = @ + 1, !.ret = Some(Partial(st.trivial, st.trivial, Some(0)))]
    ELSE parallel_dijkstra_extension_next(g, st, pick)

\* prepare_enumeration(graph) of the enumerator algo names
\* ------------------------------------------------------------------
\* APSD in arbitrary order: apsd/unweighted.rs and apsd/weighted.rs

\* a row iterator emits every target without a filter
keep_self(u, v) == TRUE

\* the filter of a row iterator: self-distances already emitted
not_self(u, v) == v # u

\* the batch row of source u: sssd for hop distances, dijkstra for weighted
solution_row_for(g, u) ==
    IF algo = "apsd-enum-bfs" THEN sssd(g, u) ELSE dijkstra(g, u)

\* the iterator over the row of source u; v is the next vertex of its range
solution_row_iterator_for(g, u) ==
    [solution_row |-> solution_row_for(g, u), u |-> u, v |-> 0]

\* next of a row iterator: the next target the filter lets pass
RECURSIVE row_iterator_next(_, _)
row_iterator_next(g, it) ==
    IF it.v >= num_vertices(g)
    THEN [iter |-> it, ret |-> None]
    ELSE IF not_self(it.u, it.v)
    THEN [iter |-> [it EXCEPT !.v = @ + 1],
          ret |-> Some(Partial(it.u, it.v, it.solution_row[it.v]))]
    ELSE row_iterator_next(g, [it EXCEPT !.v = @ + 1])

\* next of vertices().flat_map(solution_row_iterator_for): iter is the next
\* source, frontiter the row iterator in use
RECURSIVE flat_map_next(_, _)
flat_map_next(g, fm) ==
    IF IsSome(fm.frontiter)
    THEN LET r == row_iterator_next(g, Unwrap(fm.frontiter))
         IN  IF IsSome(r.ret)
             THEN [flat_map |-> [fm EXCEPT !.frontiter = Some(r.iter)], ret |-> r.ret]
             ELSE flat_map_next(g, [fm EXCEPT !.frontiter = None])
    ELSE IF fm.iter < num_vertices(g)
    THEN flat_map_next(g, [iter |-> fm.iter + 1,
                           frontiter |-> Some(solution_row_iterator_for(g, fm.iter))])
    ELSE [flat_map |-> fm, ret |-> None]

\* trivial_iterator.chain(extension_iterator) after construction
prepare_enumeration(g) ==
    [trivial |-> 0, extension |-> [iter |-> 0, frontiter |-> None], ret |-> None]

\* next of the chained iterator
apsd_rows_next(g, st) ==
    IF st.trivial < num_vertices(g)
    THEN [st EXCEPT !.trivial = @ + 1, !.ret = Some(Partial(st.trivial, st.trivial, Some(0)))]
    ELSE LET r == flat_map_next(g, st.extension)
         IN  [st EXCEPT !.extension = r.flat_map, !.ret = r.ret]

ApsdInit ==
    /\ out = <<>>
    /\ apsd_rows = IF algo \in {"apsd-enum-bfs", "apsd-enum-dijkstra"}
                   THEN prepare_enumeration(graph) ELSE Idle
    /\ parallel_bfs = IF algo = "apsd-enum-bfs-sorted" THEN ParallelBfs(graph) ELSE Idle
    /\ parallel_dijkstra = IF algo = "apsd-enum-dijkstra-sorted"
                           THEN ParallelDijkstra(graph) ELSE Idle

\* the entries the heap may pop in the next call; 1 where the call pops none
pop_choices(g, st) ==
    IF st.trivial < num_vertices(g) \/ initialized_dijkstra_queue(g, st) = <<>>
    THEN {1}
    ELSE poppable(initialized_dijkstra_queue(g, st))

\* one call of next on the enumerator of unweighted_sorted
ParallelBfsNext ==
    /\ algo = "apsd-enum-bfs-sorted"
    /\ ~Panicked
    /\ Len(out) < num_vertices(graph) * num_vertices(graph) + MaxExtraCalls
    /\ parallel_bfs' = parallel_bfs_next(graph, parallel_bfs)
    /\ out' = Append(out, parallel_bfs'.ret)
    /\ UNCHANGED all_but_parallel_bfs

\* one call of next on the enumerator of weighted_sorted
ParallelDijkstraNext ==
    /\ algo = "apsd-enum-dijkstra-sorted"
    /\ ~Panicked
    /\ Len(out) < num_vertices(graph) * num_vertices(graph) + MaxExtraCalls
    /\ \E pick \in pop_choices(graph, parallel_dijkstra) :
        parallel_dijkstra' = parallel_dijkstra_next(graph, parallel_dijkstra, pick)
    /\ out' = Append(out, parallel_dijkstra'.ret)
    /\ UNCHANGED all_but_parallel_dijkstra

\* one call of next on the enumerator of apsd/unweighted or apsd/weighted
ApsdRowsNext ==
    /\ algo \in {"apsd-enum-bfs", "apsd-enum-dijkstra"}
    /\ ~Panicked
    /\ Len(out) < num_vertices(graph) * num_vertices(graph) + MaxExtraCalls
    /\ apsd_rows' = apsd_rows_next(graph, apsd_rows)
    /\ out' = Append(out, apsd_rows'.ret)
    /\ UNCHANGED all_but_apsd_rows

InitApsd ==
    /\ LaterObjectsIdle
    /\ \E n \in 1..MaxSdVertices : graph \in WeightedDigraphs(n)
    /\ algo \in {"apsd-enum-bfs-sorted", "apsd-enum-dijkstra-sorted",
                 "apsd-enum-bfs", "apsd-enum-dijkstra"}
    /\ ApsdInit
    /\ source_vertex = Idle /\ elements = Idle
    /\ lazy = Idle /\ lazy_written = Idle /\ lazy_ret = Idle
    /\ boruvka = Idle /\ iqs = Idle /\ idfs = Idle
    /\ sssd_bfs = Idle /\ sssd_dijkstra = Idle
    /\ apsd_no_self = Idle /\ kruskal = Idle /\ prim = Idle /\ enum_mst = Idle

NextApsd == ParallelBfsNext \/ ParallelDijkstraNext \/ ApsdRowsNext

SpecApsd == InitApsd /\ [][NextApsd]_vars

\* ------------------------------------------------------------------
\* APSD without self-distances: apsd/unweighted_no_self.rs and
\* apsd/weighted_no_self.rs

\* graph.degree(u, Direction::OUT)
degree(g, u) == Len(adjacencies(g, u))

\* the number of values[1..upto] with key k
RECURSIVE count_key(_, _, _, _)
count_key(values, keys, k, upto) ==
    IF upto = 0 THEN 0
    ELSE count_key(values, keys, k, upto - 1) + (IF keys[values[upto]] = k THEN 1 ELSE 0)

\* counts after the prefix sums: the number of values with a key of at most k
RECURSIVE prefix_count(_, _, _)
prefix_count(values, keys, k) ==
    IF k < 0 THEN 0
    ELSE prefix_count(values, keys, k - 1) + count_key(values, keys, k, Len(values))

\* the placement loop of counting_sort_by, from the last value to the first
RECURSIVE counting_sort_place(_, _, _, _, _)
counting_sort_place(values, keys, i, counts, output) ==
    IF i = 0 THEN output
    ELSE LET key == keys[values[i]]
         IN  counting_sort_place(values, keys, i - 1,
                                 [counts EXCEPT ![key] = @ - 1],
                                 [output EXCEPT ![counts[key]] = values[i]])

\* counting_sort_by: Some(output), or Panic where a key indexes counts out of
\* bounds or values is empty
counting_sort_by(values, keys, max_key) ==
    IF (\E i \in 1..Len(values) : keys[values[i]] > max_key) \/ values = <<>>
    THEN Panic
    ELSE Some(counting_sort_place(values, keys, Len(values),
                                  [k \in 0..max_key |-> prefix_count(values, keys, k)],
                                  [i \in 1..Len(values) |-> values[1]]))

\* adjacencies.min_by_key(|(_, d)| *d) from position i on: the first of the
\* cheapest adjacencies
RECURSIVE min_by_key_from(_, _, _)
min_by_key_from(s, i, best) ==
    IF i > Len(s) THEN best
    ELSE min_by_key_from(s, i + 1, IF s[i][2] < best[2] THEN s[i] ELSE best)

min_by_key(s) == min_by_key_from(s, 2, s[1])

\* the vertices 0..n-1 in order
vertices(g) == [i \in 1..num_vertices(g) |-> i - 1]

\* vertices().filter(v != u).map(v -> (u, v, None))
unreachable_row(g, u) ==
    LET vs == SelectSeq(vertices(g), LAMBDA v : v # u)
    IN  [i \in 1..Len(vs) |-> Partial(u, vs[i], None)]

\* trivial_for of unweighted_no_self: every out-neighbor at distance 1
bfs_trivial_for(g, u) ==
    IF degree(g, u) = 0
    THEN unreachable_row(g, u)
    ELSE [k \in 1..degree(g, u) |-> Partial(u, neighbors(g, u)[k], Some(1))]

\* solution_row_iterator_for of unweighted_no_self
bfs_solution_row_iterator_for(g, u) ==
    IF degree(g, u) = 0
    THEN <<>>
    ELSE LET solution_row == sssd(g, u)
             vs == SelectSeq(vertices(g),
                             LAMBDA v : v # u /\ solution_row[v] # Some(1))
         IN  [i \in 1..Len(vs) |-> Partial(u, vs[i], solution_row[vs[i]])]

\* trivial_for of weighted_no_self: the cheapest out-edge
dijkstra_trivial_for(g, u) ==
    IF degree(g, u) = 0
    THEN unreachable_row(g, u)
    ELSE LET min == min_by_key(adjacencies(g, u))
         IN  <<Partial(u, min[1], Some(min[2]))>>

\* solution_row_iterator_for of weighted_no_self
dijkstra_solution_row_iterator_for(g, u) ==
    IF degree(g, u) = 0
    THEN <<>>
    ELSE LET solution_row == dijkstra(g, u)
             min_v == min_by_key(adjacencies(g, u))[1]
             vs == SelectSeq(vertices(g), LAMBDA v : v # u /\ v # min_v)
         IN  [i \in 1..Len(vs) |-> Partial(u, vs[i], solution_row[vs[i]])]

\* the iterator a flat_map creates for source u; the results it will yield
no_self_row(g, part, u) ==
    IF algo = "apsd-enum-bfs-no-self"
    THEN IF part = "trivial" THEN bfs_trivial_for(g, u)
         ELSE bfs_solution_row_iterator_for(g, u)
    ELSE IF part = "trivial" THEN dijkstra_trivial_for(g, u)
         ELSE dijkstra_solution_row_iterator_for(g, u)

\* next of a flat_map over the sources iter: frontiter is the row in use
RECURSIVE no_self_flat_map_next(_, _, _)
no_self_flat_map_next(g, part, fm) ==
    IF IsSome(fm.frontiter) /\ Unwrap(fm.frontiter) # <<>>
    THEN [flat_map |-> [fm EXCEPT !.frontiter = Some(Tail(Unwrap(fm.frontiter)))],
          ret |-> Some(Head(Unwrap(fm.frontiter)))]
    ELSE IF fm.iter # <<>>
    THEN no_self_flat_map_next(g, part,
            [iter |-> Tail(fm.iter),
             frontiter |-> Some(no_self_row(g, part, Head(fm.iter)))])
    ELSE [flat_map |-> [fm EXCEPT !.frontiter = None], ret |-> None]

\* the order in which the trivial iterator visits the sources, or Panic
trivial_order(g) ==
    IF algo = "apsd-enum-bfs-no-self"
    THEN Some(vertices(g))
    ELSE counting_sort_by(vertices(g),
                          [v \in Vertices(g) |-> degree(g, v)],
                          num_vertices(g) - 1)

\* prepare_enumeration of the no-self enumerators: trivial is the first half
\* of the chain, dropped when exhausted; Panic where the sort panics
no_self_prepare_enumeration(g) ==
    IF trivial_order(g) = Panic
    THEN Panic
    ELSE [trivial |-> Some([iter |-> Unwrap(trivial_order(g)), frontiter |-> None]),
          extension |-> [iter |-> vertices(g), frontiter |-> None],
          ret |-> None]

\* next of the chained iterator
apsd_no_self_next(g, st) ==
    LET t == no_self_flat_map_next(g, "trivial", Unwrap(st.trivial))
        e == no_self_flat_map_next(g, "extension", st.extension)
    IN  IF IsSome(st.trivial) /\ IsSome(t.ret)
        THEN [st EXCEPT !.trivial = Some(t.flat_map), !.ret = t.ret]
        ELSE [st EXCEPT !.trivial = None, !.extension = e.flat_map, !.ret = e.ret]

\* the directed graphs on n vertices, self-loops allowed, whose edges weigh
\* 1..MaxSdWeight
LoopDigraphs(n) ==
    {DirectedAdjacencyArrayGraph(n, OptionalEdgeList(OrderedPairs(n, 0, 0), ws)) :
        ws \in [1..(n * n) -> {None} \cup {Some(w) : w \in 1..MaxSdWeight}]}

\* one call of next on a no-self enumerator
ApsdNoSelfNext ==
    /\ algo \in {"apsd-enum-bfs-no-self", "apsd-enum-dijkstra-no-self"}
    /\ ~Panicked
    /\ Len(out) < num_vertices(graph) * num_vertices(graph) + MaxExtraCalls
    /\ apsd_no_self' = apsd_no_self_next(graph, apsd_no_self)
    /\ out' = Append(out, apsd_no_self'.ret)
    /\ UNCHANGED all_but_apsd_no_self

\* a panic of prepare_enumeration is the only entry of out
InitApsdNoSelf ==
    /\ LaterObjectsIdle
    /\ \E n \in 1..MaxSdVertices : graph \in LoopDigraphs(n)
    /\ algo \in {"apsd-enum-bfs-no-self", "apsd-enum-dijkstra-no-self"}
    /\ apsd_no_self = no_self_prepare_enumeration(graph)
    /\ out = IF trivial_order(graph) = Panic THEN <<Panic>> ELSE <<>>
    /\ source_vertex = Idle /\ elements = Idle
    /\ lazy = Idle /\ lazy_written = Idle /\ lazy_ret = Idle
    /\ boruvka = Idle /\ iqs = Idle /\ idfs = Idle
    /\ sssd_bfs = Idle /\ sssd_dijkstra = Idle
    /\ parallel_bfs = Idle /\ parallel_dijkstra = Idle
    /\ apsd_rows = Idle /\ kruskal = Idle /\ prim = Idle /\ enum_mst = Idle

SpecApsdNoSelf == InitApsdNoSelf /\ [][ApsdNoSelfNext]_vars

\* ------------------------------------------------------------------
\* Kruskal: kruskal.rs, on RankedUnionFind of union_find.rs

\* RankedUnionFind::new_with_size
ranked_new_with_size(n) ==
    [forest |-> new_with_size(n), ranks |-> [x \in 0..(n - 1) |-> 0]]

\* the link of union by rank: the root of lower rank goes below the other
link(c, x, y) ==
    IF c.ranks[x] > c.ranks[y]
    THEN [c EXCEPT !.forest = set_parent(@, y, x)]
    ELSE [forest |-> set_parent(c.forest, x, y),
          ranks |-> IF c.ranks[x] = c.ranks[y]
                    THEN [c.ranks EXCEPT ![y] = @ + 1] ELSE c.ranks]

\* RankedUnionFind::union
ranked_union(c, x, y) ==
    LET fx == find(c.forest, x)
        fy == find(fx.parents, y)
        found == [c EXCEPT !.forest = fy.parents]
    IN  IF fx.root = fy.root THEN found ELSE link(found, fx.root, fy.root)

\* a test that finds no two vertices in the same set
never_same(c, x, y) == [same |-> FALSE, components |-> c]

\* DisjointSet::is_same on a RankedUnionFind; find changes the forest
ranked_is_same(c, x, y) ==
    LET r == is_same(c.forest, x, y)
    IN  [same |-> r.same, components |-> [c EXCEPT !.forest = r.parents]]

\* is_preselected of enumeration.rs; forest[v] is None or Some((parent, data))
is_preselected(forest, edge) ==
    \/ IsSome(forest[source(edge)]) /\ Unwrap(forest[source(edge)])[1] = sink(edge)
    \/ IsSome(forest[sink(edge)]) /\ Unwrap(forest[sink(edge)])[1] = source(edge)

\* the comparators of the callers, as the key an edge is ordered by:
\* <<"data">> is Extract::new(|e| e.data()), <<"data-source-sink">> the total
\* order by data, source and sink, and <<"preselection-first", forest, c>> the
\* closure of extension in enumeration.rs: preselected edges before all
\* others, comparator c among the edges of a kind
RECURSIVE comparator_key(_, _, _)
comparator_key(comparator, n, e) ==
    IF comparator[1] = "data" THEN data(e)
    ELSE IF comparator[1] = "data-source-sink"
    THEN (data(e) * n + source(e)) * n + sink(e)
    ELSE (IF is_preselected(comparator[2], e) THEN 0 ELSE (MaxMstWeight + 1) * n * n)
            + comparator_key(comparator[3], n, e)

\* IQS::with_comparator(&edges, comparator); the elements carry their key first
iqs_with_comparator(es, comparator, n) ==
    [a |-> [i \in 1..Len(es) |-> <<comparator_key(comparator, n, es[i]), es[i]>>],
     s |-> <<Len(es)>>,
     idx |-> 0,
     ret |-> None]

\* kruskal MstEnumerator::with_comparator
Kruskal(g, comparator) ==
    [components |-> ranked_new_with_size(num_vertices(g)),
     sorted_edges |-> iqs_with_comparator(edges(g), comparator, num_vertices(g)),
     disjunct_sets |-> num_vertices(g),
     ret |-> None]

\* for e in self.sorted_edges.by_ref() { .. } of MstEnumerator::next
RECURSIVE kruskal_pull(_)
kruskal_pull(st) ==
    LET sorted_edges == iqs_next(st.sorted_edges)
    IN  IF ~IsSome(sorted_edges.ret)
        THEN [st EXCEPT !.sorted_edges = sorted_edges, !.ret = sorted_edges.ret]
        ELSE LET e == Unwrap(sorted_edges.ret)[2]
                 same == ranked_is_same(st.components, source(e), sink(e))
             IN  IF ~same.same
                 THEN [st EXCEPT !.sorted_edges = sorted_edges,
                                 !.components = ranked_union(same.components,
                                                             source(e), sink(e)),
                                 !.disjunct_sets = @ - 1,
                                 !.ret = Some(e)]
                 ELSE kruskal_pull([st EXCEPT !.sorted_edges = sorted_edges,
                                              !.components = same.components])

\* kruskal MstEnumerator::next
kruskal_next(st) ==
    IF st.disjunct_sets = 1 THEN [st EXCEPT !.ret = None] ELSE kruskal_pull(st)

\* dfs_forest: the parent links along the tree edges of a depth-first search
dfs_forest(g) ==
    LET events == dfs(g)
        tree_edges == SelectSeq(events, LAMBDA ev : ev[1] = "TreeEdge")
    IN  [v \in Vertices(g) |->
            IF \E i \in 1..Len(tree_edges) : tree_edges[i][3] = v
            THEN LET ev == tree_edges[CHOOSE i \in 1..Len(tree_edges) : tree_edges[i][3] = v]
                 IN  Some(<<ev[2], ev[4]>>)
            ELSE None]

\* for e in sorted_edges { .. } of Kruskal::comparator_st_for
RECURSIVE kruskal_st_loop(_, _)
kruskal_st_loop(st, tree_edges) ==
    LET sorted_edges == iqs_next(st.sorted_edges)
    IN  IF ~IsSome(sorted_edges.ret)
        THEN tree_edges
        ELSE LET e == Unwrap(sorted_edges.ret)[2]
                 same == ranked_is_same(st.components, source(e), sink(e))
             IN  IF same.same
                 THEN kruskal_st_loop([st EXCEPT !.sorted_edges = sorted_edges,
                                                 !.components = same.components],
                                      tree_edges)
                 ELSE IF st.disjunct_sets - 1 = 1
                 THEN Append(tree_edges, e)
                 ELSE kruskal_st_loop(
                        [st EXCEPT !.sorted_edges = sorted_edges,
                                   !.components = ranked_union(same.components,
                                                               source(e), sink(e)),
                                   !.disjunct_sets = @ - 1],
                        Append(tree_edges, e))

\* Kruskal::comparator_st_for
kruskal_comparator_st_for(g, comparator) ==
    dfs_forest(UndirectedAdjacencyArrayGraph(num_vertices(g),
                                             kruskal_st_loop(Kruskal(g, comparator), <<>>)))

\* one call of next on the Kruskal enumerator
KruskalNext ==
    /\ ~Panicked
    /\ Len(out) < num_vertices(graph) + MaxExtraCalls
    /\ kruskal' = kruskal_next(kruskal)
    /\ out' = Append(out, kruskal'.ret)
    /\ UNCHANGED all_but_kruskal

InitKruskal ==
    /\ LaterObjectsIdle
    /\ \E n \in 1..MaxTreeVertices : graph \in MstGraphs(n)
    /\ algo \in {"data", "data-source-sink"}
    /\ kruskal = Kruskal(graph, <<algo>>)
    /\ out = <<>>
    /\ source_vertex = Idle /\ elements = Idle
    /\ lazy = Idle /\ lazy_written = Idle /\ lazy_ret = Idle
    /\ boruvka = Idle /\ iqs = Idle /\ idfs = Idle
    /\ sssd_bfs = Idle /\ sssd_dijkstra = Idle
    /\ parallel_bfs = Idle /\ parallel_dijkstra = Idle
    /\ apsd_rows = Idle /\ apsd_no_self = Idle /\ prim = Idle /\ enum_mst = Idle

SpecKruskal == InitKruskal /\ [][KruskalNext]_vars

\* ------------------------------------------------------------------
\* Prim: prim.rs

White == "White"
Gray == "Gray"
Black == "Black"

\* the entries a heap without order may return
any_entry(target_queue, comparator, n) == 1..Len(target_queue)

\* the entries target_queue.pop() may return: those no entry is less than
\* under the comparator (binary_heap_plus orders equal entries as it likes)
prim_poppable(target_queue, comparator, n) ==
    {i \in 1..Len(target_queue) :
        \A j \in 1..Len(target_queue) :
            comparator_key(comparator, n, target_queue[i])
                <= comparator_key(comparator, n, target_queue[j])}

\* target_queue without its entry number i
remove_entry(target_queue, i) ==
    SubSeq(target_queue, 1, i - 1) \o SubSeq(target_queue, i + 1, Len(target_queue))

\* MstEnumerator::with_comparator and the head of Prim::comparator_st_for:
\* vertex 0 is queued with a fictitious self-edge
Prim(g, comparator) ==
    [colors |-> [v \in Vertices(g) |-> IF v = 0 THEN Gray ELSE White],
     tree |-> [v \in Vertices(g) |-> None],
     comparator |-> comparator,
     target_queue |-> <<<<0, 0, 0>>>>,
     ret |-> None]

\* for a in graph.adjacencies(u, OUT) { .. } from adjacency number k on
RECURSIVE prim_adjacencies(_, _, _, _)
prim_adjacencies(g, st, u, k) ==
    IF k > Len(adjacencies(g, u))
    THEN st
    ELSE LET v == adjacencies(g, u)[k][1]
             w == adjacencies(g, u)[k][2]
             n == num_vertices(g)
         IN  IF \/ st.colors[v] = White
                \/ /\ st.colors[v] = Gray
                   /\ IsSome(st.tree[v])
                   /\ comparator_key(st.comparator, n, <<u, v, w>>)
                        < comparator_key(st.comparator, n,
                                         <<Unwrap(st.tree[v])[1], v, Unwrap(st.tree[v])[2]>>)
             THEN prim_adjacencies(g,
                    [st EXCEPT !.tree[v] = Some(<<u, w>>),
                               !.target_queue = Append(@, <<u, v, w>>),
                               !.colors[v] = Gray],
                    u, k + 1)
             ELSE prim_adjacencies(g, st, u, k + 1)

\* the body of the pop loop for an entry whose sink is not Black
prim_attach(g, st, e) ==
    prim_adjacencies(g, [st EXCEPT !.colors[sink(e)] = Black], sink(e), 1)

\* MstEnumerator::next of prim.rs: the enumerators the call may leave, one for
\* every order in which the heap may return equal entries
RECURSIVE prim_next(_, _)
prim_next(g, st) ==
    IF st.target_queue = <<>>
    THEN {[st EXCEPT !.ret = None]}
    ELSE UNION {
        LET e == st.target_queue[pick]
            popped == [st EXCEPT !.target_queue = remove_entry(@, pick)]
        IN  IF st.colors[sink(e)] = Black
            THEN prim_next(g, popped)
            ELSE IF sink(e) # source(e)
            THEN {[prim_attach(g, popped, e) EXCEPT
                      !.ret = Some(<<sink(e), source(e), data(e)>>)]}
            ELSE prim_next(g, prim_attach(g, popped, e))
        : pick \in prim_poppable(st.target_queue, st.comparator, num_vertices(g))}

\* the while loop of Prim::comparator_st_for: the trees it may return
RECURSIVE comparator_st_loop(_, _)
comparator_st_loop(g, st) ==
    IF st.target_queue = <<>>
    THEN {st.tree}
    ELSE UNION {
        LET e == st.target_queue[pick]
            popped == [st EXCEPT !.target_queue = remove_entry(@, pick)]
        IN  IF st.colors[sink(e)] = Black
            THEN comparator_st_loop(g, popped)
            ELSE comparator_st_loop(g, prim_attach(g, popped, e))
        : pick \in prim_poppable(st.target_queue, st.comparator, num_vertices(g))}

\* Prim::comparator_st_for
comparator_st_for(g, comparator) == comparator_st_loop(g, Prim(g, comparator))

\* the sum of the edge weights of a forest: tree[v] is None or Some((parent, w))
RECURSIVE forest_weight(_, _)
forest_weight(tree, v) ==
    IF v \notin DOMAIN tree THEN 0
    ELSE (IF IsSome(tree[v]) THEN Unwrap(tree[v])[2] ELSE 0) + forest_weight(tree, v + 1)

\* one call of next on the Prim enumerator
PrimNext ==
    /\ ~Panicked
    /\ Len(out) < num_vertices(graph) + MaxExtraCalls
    /\ prim' \in prim_next(graph, prim)
    /\ out' = Append(out, prim'.ret)
    /\ UNCHANGED all_but_prim

InitPrim ==
    /\ LaterObjectsIdle
    /\ \E n \in 1..MaxTreeVertices : graph \in MstGraphs(n)
    /\ algo \in {"data", "data-source-sink"}
    /\ prim = Prim(graph, <<algo>>)
    /\ out = <<>>
    /\ source_vertex = Idle /\ elements = Idle
    /\ lazy = Idle /\ lazy_written = Idle /\ lazy_ret = Idle
    /\ boruvka = Idle /\ iqs = Idle /\ idfs = Idle
    /\ sssd_bfs = Idle /\ sssd_dijkstra = Idle
    /\ parallel_bfs = Idle /\ parallel_dijkstra = Idle
    /\ apsd_rows = Idle /\ apsd_no_self = Idle /\ kruskal = Idle /\ enum_mst = Idle

SpecPrim == InitPrim /\ [][PrimNext]_vars

\* ------------------------------------------------------------------
\* batch Boruvka: Boruvka::comparator_st_for of boruvka.rs

\* "find a minimum weight crossing edge per component" under a comparator
RECURSIVE st_select_new_edges(_, _, _, _, _)
st_select_new_edges(crossing, i, comps, new_edges, comparator) ==
    IF i > Len(crossing) THEN [components |-> comps, new_edges |-> new_edges]
    ELSE LET e == crossing[i]
             n == Cardinality(DOMAIN comps)
             f == find(comps, source(e))
             old == new_edges[f.root]
             chosen == IF ~IsSome(old) THEN Some(e)
                       ELSE IF comparator_key(comparator, n, e)
                                <= comparator_key(comparator, n, Unwrap(old))
                       THEN Some(e)
                       ELSE old
         IN  st_select_new_edges(crossing, i + 1, f.parents,
                                 [new_edges EXCEPT ![f.root] = chosen], comparator)

\* while !crossing_edges.is_empty() { .. }: the tree edges in the end
RECURSIVE boruvka_st_loop(_, _, _, _)
boruvka_st_loop(comparator, comps, crossing_edges, tree_edges) ==
    IF crossing_edges = <<>>
    THEN tree_edges
    ELSE LET selected == st_select_new_edges(crossing_edges, 1, comps,
                                             [c \in DOMAIN comps |-> None], comparator)
             merged == merge_components(selected.new_edges, 0, selected.components,
                                        tree_edges)
             flat == flatten(merged.components)
         IN  boruvka_st_loop(comparator, flat, retain_crossing(crossing_edges, flat),
                             merged.edge_queue)

\* Boruvka::comparator_st_for
boruvka_comparator_st_for(g, comparator) ==
    dfs_forest(UndirectedAdjacencyArrayGraph(
        num_vertices(g),
        boruvka_st_loop(comparator, new_with_size(num_vertices(g)), edges(g), <<>>)))

\* ------------------------------------------------------------------
\* EnumMST: enumeration.rs

\* extension: the trees the black box may return under the comparator that
\* puts the preselected edges first
extension(g, forest, black_box) ==
    LET comparator == <<"preselection-first", forest, <<"data">>>>
    IN  IF black_box = "enum-boruvka" THEN {boruvka_comparator_st_for(g, comparator)}
        ELSE IF black_box = "enum-kruskal" THEN {kruskal_comparator_st_for(g, comparator)}
        ELSE comparator_st_for(g, comparator)

\* the finalization step that emits every tree edge
output_every_edge(forest, mst, iterator) ==
    LET rest == {u \in DOMAIN mst : u >= iterator /\ IsSome(mst[u])}
        u == CHOOSE x \in rest : \A y \in rest : x <= y
    IN  IF rest = {} THEN [result |-> None, iterator |-> Cardinality(DOMAIN mst)]
        ELSE [result |-> Some(<<u, Unwrap(mst[u])[1], Unwrap(mst[u])[2]>>),
              iterator |-> u + 1]

\* output_finalization_step: the next tree edge that was not preselected
RECURSIVE output_finalization_step(_, _, _)
output_finalization_step(forest, mst, iterator) ==
    IF iterator >= Cardinality(DOMAIN mst)
    THEN [result |-> None, iterator |-> iterator]
    ELSE LET u == iterator
         IN  IF IsSome(mst[u])
             THEN LET partial == <<u, Unwrap(mst[u])[1], Unwrap(mst[u])[2]>>
                  IN  IF is_preselected(forest, partial)
                      THEN output_finalization_step(forest, mst, u + 1)
                      ELSE [result |-> Some(partial), iterator |-> u + 1]
             ELSE output_finalization_step(forest, mst, u + 1)

\* Forest::new_isolated_vertices and the loop over selected_edges from
\* position i on
RECURSIVE selected_forest(_, _, _)
selected_forest(forest, selected_edges, i) ==
    IF i > Len(selected_edges) THEN forest
    ELSE selected_forest(
            [forest EXCEPT ![source(selected_edges[i])] =
                Some(<<sink(selected_edges[i]), data(selected_edges[i])>>)],
            selected_edges, i + 1)

\* enumeration MstEnumerator::with_comparator
EnumMST(g) ==
    [phase |-> "CreditAccumulationPhase",
     iterator |-> 0,
     selected_edges |-> <<>>,
     forest |-> <<>>,
     mst |-> <<>>,
     ret |-> None]

\* the OutputFinalizationPhase branch of MstEnumerator::next
output_finalization_phase(st) ==
    LET r == output_finalization_step(st.forest, st.mst, st.iterator)
    IN  [st EXCEPT !.iterator = r.iterator, !.ret = r.result]

\* enumeration MstEnumerator::next: the enumerators the call may leave, one for
\* every tree the black box may return
enum_mst_next(g, black_box, st) ==
    IF st.phase = "CreditAccumulationPhase"
    THEN LET r == credit_accumulation_step(g, st.iterator)
         IN  IF r.result = Panic
             THEN {[st EXCEPT !.iterator = r.iterator, !.ret = Panic]}
             ELSE IF IsSome(r.result)
             THEN {[st EXCEPT !.iterator = r.iterator,
                              !.selected_edges = Append(@, Unwrap(r.result)),
                              !.ret = r.result]}
             ELSE LET forest == selected_forest([v \in Vertices(g) |-> None],
                                                st.selected_edges, 1)
                  IN  {output_finalization_phase([st EXCEPT !.phase = "OutputFinalizationPhase",
                                                    !.forest = forest,
                                                    !.mst = mst,
                                                    !.iterator = 0])
                       : mst \in extension(g, forest, black_box)}
    ELSE {output_finalization_phase(st)}

\* one call of next on the EnumMST enumerator
EnumMstNext ==
    /\ ~Panicked
    /\ Len(out) < num_vertices(graph) + MaxExtraCalls
    /\ enum_mst' \in enum_mst_next(graph, algo, enum_mst)
    /\ out' = Append(out, enum_mst'.ret)
    /\ UNCHANGED all_but_enum_mst

InitEnumMst ==
    /\ LaterObjectsIdle
    /\ \E n \in 2..MaxTreeVertices : graph \in MstGraphs(n)
    /\ algo \in {"enum-boruvka", "enum-kruskal", "enum-prim"}
    /\ enum_mst = EnumMST(graph)
    /\ out = <<>>
    /\ source_vertex = Idle /\ elements = Idle
    /\ lazy = Idle /\ lazy_written = Idle /\ lazy_ret = Idle
    /\ boruvka = Idle /\ iqs = Idle /\ idfs = Idle
    /\ sssd_bfs = Idle /\ sssd_dijkstra = Idle
    /\ parallel_bfs = Idle /\ parallel_dijkstra = Idle
    /\ apsd_rows = Idle /\ apsd_no_self = Idle /\ kruskal = Idle /\ prim = Idle

SpecEnumMst == InitEnumMst /\ [][EnumMstNext]_vars

\* ------------------------------------------------------------------
\* spanning trees, for the statements about minimum weight

\* the edges of g as undirected edges, from the smaller endpoint
undirected_edges(g) == {e \in Range(edges(g)) : source(e) < sink(e)}

\* the vertices that the edges of T connect to those of seen
RECURSIVE connected_to(_, _)
connected_to(T, seen) ==
    LET more == seen \cup {sink(e) : e \in {x \in T : source(x) \in seen}}
                     \cup {source(e) : e \in {x \in T : sink(x) \in seen}}
    IN  IF more = seen THEN seen ELSE connected_to(T, more)

RECURSIVE total_weight(_)
total_weight(T) ==
    IF T = {} THEN 0
    ELSE LET e == CHOOSE x \in T : TRUE IN data(e) + total_weight(T \ {e})

\* the weights of the spanning trees of g
spanning_tree_weights(g) ==
    {total_weight(T) : T \in {X \in SUBSET undirected_edges(g) :
                                /\ Cardinality(X) = num_vertices(g) - 1
                                /\ connected_to(X, {0}) = Vertices(g)}}

\* the weight of a minimum spanning tree of the connected graph g
mst_weight(g) ==
    CHOOSE w \in spanning_tree_weights(g) : \A x \in spanning_tree_weights(g) : w <= x

\* the sum of the weights of the edges emitted so far
RECURSIVE emitted_weight(_)
emitted_weight(k) == IF k = 0 THEN 0 ELSE data(Emitted[k]) + emitted_weight(k - 1)

\* ------------------------------------------------------------------
\* breadth-first search: search/bfs.rs
MaxBfsVertices == 3
MaxBfsEdges == 4

\* BfsEvent::TreeEdge; Discovered and Finished are built as those of DfsEvent
BfsTreeEdge(u, v) == <<"TreeEdge", u, v>>

\* for v in neighbors.by_ref() without the test for Color::White
next_neighbor_any(nbrs, colors, from) ==
    IF from <= Len(nbrs) THEN Some(from) ELSE None

\* for v in neighbors.by_ref(): the first neighbor the iterator still holds
\* that is white
next_white_neighbor(nbrs, colors, from) ==
    LET white == {k \in from..Len(nbrs) : colors[nbrs[k]] = White}
    IN  IF white = {} THEN None
        ELSE Some(CHOOSE k \in white : \A l \in white : k <= l)

\* IBFS::new
IBFS(g, s) ==
    [colors |-> [u \in Vertices(g) |-> White],
     last_discovered |-> Some(s),
     bfs_visit_queue |-> <<>>,
     ret |-> None]

\* IBFS::next: the enumerator after the call, its return value in ret; an
\* entry of bfs_visit_queue holds its vertex and the position of its iterator
ibfs_next(g, st) ==
    IF IsSome(st.last_discovered)
    THEN LET v == Unwrap(st.last_discovered)
         IN  [st EXCEPT !.last_discovered = None,
                        !.colors[v] = Gray,
                        !.bfs_visit_queue = Append(@, [vertex |-> v, next |-> 1]),
                        !.ret = Some(Discovered(v))]
    ELSE IF st.bfs_visit_queue = <<>>
    THEN [st EXCEPT !.ret = None]
    ELSE LET u == Head(st.bfs_visit_queue).vertex
             nbrs == neighbors(g, u)
             k == next_white_neighbor(nbrs, st.colors, Head(st.bfs_visit_queue).next)
         IN  IF IsSome(k)
             THEN [st EXCEPT !.bfs_visit_queue[1].next = Unwrap(k) + 1,
                             !.last_discovered = Some(nbrs[Unwrap(k)]),
                             !.ret = Some(BfsTreeEdge(u, nbrs[Unwrap(k)]))]
             ELSE [st EXCEPT !.colors[u] = Black,
                             !.bfs_visit_queue = Tail(@),
                             !.ret = Some(Finished(u))]

\* the loop of bfs over the neighbors of u from position k on and then over
\* the queue: the events the visitor is called with, after events
RECURSIVE bfs_loop(_, _, _, _, _, _)
bfs_loop(g, u, k, colors, q, events) ==
    LET nbrs == neighbors(g, u)
    IN  IF k <= Len(nbrs)
        THEN LET v == nbrs[k]
             IN  IF colors[v] = White
                 THEN bfs_loop(g, u, k + 1, [colors EXCEPT ![v] = Gray], Append(q, v),
                               events \o <<BfsTreeEdge(u, v), Discovered(v)>>)
                 ELSE bfs_loop(g, u, k + 1, colors, q, events)
        ELSE LET finished == Append(events, Finished(u))
             IN  IF q = <<>> THEN finished
                 ELSE bfs_loop(g, Head(q), 1, [colors EXCEPT ![u] = Black], Tail(q), finished)

\* bfs with a visitor that never breaks: the events it is called with
bfs(g, s) ==
    bfs_loop(g, s, 1, [u \in Vertices(g) |-> IF u = s THEN Gray ELSE White], <<>>,
             <<Discovered(s)>>)

\* the edge lists of at most len edges over the pairs, in any order, an edge
\* allowed more than once
RECURSIVE EdgeLists(_, _)
EdgeLists(pairs, len) ==
    IF len = 0 THEN {<<>>}
    ELSE EdgeLists(pairs, len - 1)
            \cup {Append(es, <<p[1], p[2], 1>>) :
                    es \in {l \in EdgeLists(pairs, len - 1) : Len(l) = len - 1},
                    p \in Range(pairs)}

\* the directed graphs on n vertices with at most MaxBfsEdges edges, self-loops
\* and parallel edges included
MultiDigraphs(n) ==
    {DirectedAdjacencyArrayGraph(n, es) : es \in EdgeLists(OrderedPairs(n, 0, 0), MaxBfsEdges)}

\* IBFS::new(&graph, source)
IbfsInit ==
    /\ out = <<>>
    /\ ibfs = IBFS(graph, source_vertex)

\* one call of IBFS::next
IbfsNext ==
    /\ ~Panicked
    /\ Len(out) < Len(bfs(graph, source_vertex)) + MaxExtraCalls
    /\ ibfs' = ibfs_next(graph, ibfs)
    /\ out' = Append(out, ibfs'.ret)
    /\ UNCHANGED all_but_ibfs

InitIbfs ==
    /\ \E n \in 1..MaxBfsVertices : graph \in MultiDigraphs(n)
    /\ source_vertex \in Vertices(graph)
    /\ IbfsInit
    /\ algo = Idle /\ elements = Idle
    /\ lazy = Idle /\ lazy_written = Idle /\ lazy_ret = Idle
    /\ boruvka = Idle /\ iqs = Idle /\ idfs = Idle
    /\ sssd_bfs = Idle /\ sssd_dijkstra = Idle
    /\ parallel_bfs = Idle /\ parallel_dijkstra = Idle
    /\ MoreEnumeratorsIdle
    /\ uf = Idle /\ uf_unions = Idle /\ td = Idle /\ isr = Idle
    /\ instance = Idle /\ f2cmax = Idle /\ partitioned = Idle

SpecIbfs == InitIbfs /\ [][IbfsNext]_vars

\* ------------------------------------------------------------------
\* union-find on its own: data_structures/union_find.rs
MaxUfSize == 4
MaxUnions == 4

\* the forest of parent links of uf, whichever of the two structures it is
uf_forest == IF algo = "RankedUnionFind" THEN uf.components.forest ELSE uf.components

\* new_with_size of the structure the run uses
UfInit ==
    /\ \E size \in 1..MaxUfSize :
        uf = [components |-> IF algo = "RankedUnionFind"
                             THEN ranked_new_with_size(size) ELSE new_with_size(size),
              op |-> "new", ret |-> <<>>]
    /\ uf_unions = {}

\* sets.union(x, y)
UfUnion ==
    /\ \E x, y \in DOMAIN uf_forest :
        /\ <<x, y>> \in uf_unions \/ Cardinality(uf_unions) < MaxUnions
        /\ uf' = [components |-> IF algo = "RankedUnionFind"
                                 THEN ranked_union(uf.components, x, y)
                                 ELSE union(uf.components, x, y),
                  op |-> "union", ret |-> <<x, y>>]
        /\ uf_unions' = uf_unions \cup {<<x, y>>}
    /\ UNCHANGED all_but_uf

\* sets.find(x)
UfFind ==
    /\ \E x \in DOMAIN uf_forest :
        LET f == find(uf_forest, x)
        IN  uf' = [components |-> IF algo = "RankedUnionFind"
                                  THEN [uf.components EXCEPT !.forest = f.parents]
                                  ELSE f.parents,
                   op |-> "find", ret |-> <<x, f.root>>]
    /\ UNCHANGED uf_unions
    /\ UNCHANGED all_but_uf

InitUnionFind ==
    /\ algo \in {"UnionFind", "RankedUnionFind"}
    /\ UfInit
    /\ graph = Idle /\ source_vertex = Idle /\ elements = Idle /\ out = Idle
    /\ lazy = Idle /\ lazy_written = Idle /\ lazy_ret = Idle
    /\ boruvka = Idle /\ iqs = Idle /\ idfs = Idle
    /\ sssd_bfs = Idle /\ sssd_dijkstra = Idle
    /\ parallel_bfs = Idle /\ parallel_dijkstra = Idle
    /\ MoreEnumeratorsIdle
    /\ ibfs = Idle /\ td = Idle /\ isr = Idle
    /\ instance = Idle /\ f2cmax = Idle /\ partitioned = Idle

NextUnionFind == UfUnion \/ UfFind

SpecUnionFind == InitUnionFind /\ [][NextUnionFind]_vars

\* sets.flatten(), of UnionFind only
UfFlatten ==
    /\ algo = "UnionFind"
    /\ uf' = [components |-> flatten(uf.components), op |-> "flatten", ret |-> <<>>]
    /\ UNCHANGED uf_unions
    /\ UNCHANGED all_but_uf

InitFlatten ==
    /\ InitUnionFind
    /\ algo = "UnionFind"

NextFlatten == UfUnion \/ UfFind \/ UfFlatten

SpecFlatten == InitFlatten /\ [][NextFlatten]_vars

\* ------------------------------------------------------------------
\* a LazyArray of TestDrop items: the drops of lazy_array.rs
MaxItems == 4

\* TestDrop::new: no item made; drops counts the drops of every item, uninit
\* the drops of slots that never held one
TestDrop == [items |-> 0, drops |-> [id \in 1..MaxItems |-> 0], uninit |-> 0]

\* td.new_item(): the item carries the next id
new_item(t) == [t EXCEPT !.items = @ + 1]

\* Drop for Item, run on the content of a cell
drop_item(t, cell) ==
    IF cell[1] = "Init" THEN [t EXCEPT !.drops[cell[2]] = @ + 1]
    ELSE [t EXCEPT !.uninit = @ + 1]

RECURSIVE drop_items(_, _)
drop_items(t, cells) ==
    IF cells = <<>> THEN t ELSE drop_items(drop_item(t, Head(cells)), Tail(cells))

\* a destructor that runs over all size slots
drop_all_slots(a) == [k \in 1..a.size |-> a.data[a.size - k]]

\* Drop for LazyArray: the cells drop_in_place is called on, in order
drop_in_place_slots(a) == [k \in 1..a.num_valid |-> a.data[a.num_valid - k]]

\* the cells whose content a set call drops: the content mem::replace returns,
\* or the element itself when the assert fails
dropped_by_set(a, index, element, junk) ==
    IF ~(index < a.size)
    THEN <<Init(element)>>
    ELSE LET found == get_data_index(a, index, junk)
         IN  IF IsSome(found) THEN <<a.data[Unwrap(found)]>> ELSE <<>>

\* the cells whose content a get_or call drops: the default it did not store
dropped_by_get_or(a, index, default, junk) ==
    IF index >= a.size \/ IsSome(get_data_index(a, index, junk))
    THEN <<Init(default)>> ELSE <<>>

\* the reads of never-written index cells in one call
IndexJunk(a) == (0..a.size) \X (0..a.size) \X {0}

LazyDropped == lazy_ret.op = "drop"

\* let td = TestDrop::new(); let mut lazy_array = LazyArray::new(size)
LazyItemsInit ==
    /\ LazyInit
    /\ td = TestDrop

\* let (id, item) = td.new_item(); lazy_array.set(index, item)
LazySetItem ==
    /\ ~LazyPanicked /\ ~LazyDropped
    /\ td.items < MaxItems
    /\ \E index \in LazyIndices, junk \in IndexJunk(lazy) :
        LET element == td.items + 1
            r == set(lazy, index, element, junk)
        IN  /\ lazy' = r.array
            /\ lazy_ret' = [op |-> "set", index |-> index, ret |-> r.ret]
            /\ lazy_written' = IF r.ret = Panic THEN lazy_written
                               ELSE [lazy_written EXCEPT ![index] = Some(element)]
            /\ td' = drop_items(new_item(td), dropped_by_set(lazy, index, element, junk))
    /\ UNCHANGED all_but_lazy_and_td

\* lazy_array.get(index)
LazyGetItem ==
    /\ ~LazyPanicked /\ ~LazyDropped
    /\ \E index \in LazyIndices, junk \in IndexJunk(lazy) :
        lazy_ret' = [op |-> "get", index |-> index, ret |-> get(lazy, index, junk)]
    /\ UNCHANGED <<lazy, lazy_written, td>>
    /\ UNCHANGED all_but_lazy_and_td

\* let (id, item) = td.new_item(); lazy_array.get_or(index, item)
LazyGetOrItem ==
    /\ ~LazyPanicked /\ ~LazyDropped
    /\ td.items < MaxItems
    /\ \E index \in LazyIndices, junk \in IndexJunk(lazy) :
        LET default == td.items + 1
            r == get_or(lazy, index, default, junk)
        IN  /\ lazy' = r.array
            /\ lazy_ret' = [op |-> "get_or", index |-> index, ret |-> r.ret]
            /\ lazy_written' = written_by_get_or(index, default)
            /\ td' = drop_items(new_item(td), dropped_by_get_or(lazy, index, default, junk))
    /\ UNCHANGED all_but_lazy_and_td

\* the array goes out of scope, also when a set has panicked
LazyDrop ==
    /\ ~LazyDropped
    /\ td' = drop_items(td, drop_in_place_slots(lazy))
    /\ lazy' = [lazy EXCEPT !.num_valid = 0]
    /\ lazy_ret' = [op |-> "drop", index |-> 0, ret |-> <<>>]
    /\ UNCHANGED lazy_written
    /\ UNCHANGED all_but_lazy_and_td

InitLazyDrop ==
    /\ LazyItemsInit
    /\ graph = Idle /\ source_vertex = Idle /\ algo = Idle /\ elements = Idle
    /\ out = Idle /\ boruvka = Idle
    /\ iqs = Idle /\ idfs = Idle /\ sssd_bfs = Idle /\ sssd_dijkstra = Idle
    /\ parallel_bfs = Idle /\ parallel_dijkstra = Idle
    /\ MoreEnumeratorsIdle
    /\ ibfs = Idle /\ uf = Idle /\ uf_unions = Idle /\ isr = Idle
    /\ instance = Idle /\ f2cmax = Idle /\ partitioned = Idle

NextLazyDrop == LazySetItem \/ LazyGetItem \/ LazyGetOrItem \/ LazyDrop

SpecLazyDrop == InitLazyDrop /\ [][NextLazyDrop]_vars

\* ------------------------------------------------------------------
\* topological ordering by iterative source removal: topological_ordering.rs
MaxIsrVertices == 4

Ok(v) == <<"Ok", v>>
Err(e) == <<"Err", e>>
HasCycles == "HasCycles"

\* graph.degree(v, Direction::IN): the adjacencies whose sink is v
in_degree(g, v) ==
    LET count(u) == Len(SelectSeq(neighbors(g, u), LAMBDA w : w = v))
        sum[u \in 0..num_vertices(g)] ==
            IF u = num_vertices(g) THEN 0 ELSE count(u) + sum[u + 1]
    IN  sum[0]

\* the vertices of in-degree 0 from vertex v on, in increasing order
RECURSIVE sources_from(_, _)
sources_from(in_degrees, v) ==
    IF v \notin DOMAIN in_degrees THEN <<>>
    ELSE (IF in_degrees[v] = 0 THEN <<v>> ELSE <<>>) \o sources_from(in_degrees, v + 1)

\* IterativeSourceRemoval::new
IterativeSourceRemoval(g) ==
    LET in_degrees == [v \in Vertices(g) |-> in_degree(g, v)]
    IN  [in_degrees |-> in_degrees,
         sources |-> sources_from(in_degrees, 0),
         num_ordered |-> 0,
         ret |-> None]

\* a loop that pushes every neighbor it meets
RECURSIVE remove_source_push_all(_, _, _)
remove_source_push_all(nbrs, k, st) ==
    IF k > Len(nbrs) THEN st
    ELSE IF st.in_degrees[nbrs[k]] = 0 THEN [st EXCEPT !.ret = Panic]
    ELSE remove_source_push_all(nbrs, k + 1,
            [st EXCEPT !.in_degrees[nbrs[k]] = @ - 1,
                       !.sources = Append(@, nbrs[k])])

\* the loop of next over the neighbors nbrs[k..] of the popped source; the
\* subtraction overflows on an in-degree of 0
RECURSIVE remove_source(_, _, _)
remove_source(nbrs, k, st) ==
    IF k > Len(nbrs) THEN st
    ELSE IF st.in_degrees[nbrs[k]] = 0 THEN [st EXCEPT !.ret = Panic]
    ELSE LET n == nbrs[k]
             dec == [st EXCEPT !.in_degrees[n] = @ - 1]
         IN  remove_source(nbrs, k + 1,
                IF dec.in_degrees[n] = 0
                THEN [dec EXCEPT !.sources = Append(@, n)]
                ELSE dec)

\* IterativeSourceRemoval::next
isr_next(g, st) ==
    IF st.sources # <<>>
    THEN LET src == st.sources[Len(st.sources)]
             popped == [st EXCEPT !.sources = SubSeq(@, 1, Len(@) - 1), !.ret = None]
             removed == remove_source(neighbors(g, src), 1, popped)
         IN  IF removed.ret = Panic THEN removed
             ELSE [removed EXCEPT !.num_ordered = @ + 1, !.ret = Some(Ok(src))]
    ELSE IF st.num_ordered = num_vertices(g)
    THEN [st EXCEPT !.ret = None]
    ELSE [st EXCEPT !.ret = Some(Err(HasCycles))]

\* IterativeSourceRemoval::new(&graph)
IsrInit ==
    /\ out = <<>>
    /\ isr = IterativeSourceRemoval(graph)

\* one call of IterativeSourceRemoval::next
IsrNext ==
    /\ ~Panicked
    /\ Len(out) < num_vertices(graph) + MaxExtraCalls
    /\ isr' = isr_next(graph, isr)
    /\ out' = Append(out, isr'.ret)
    /\ UNCHANGED all_but_isr

InitIsr ==
    /\ \E n \in 1..MaxIsrVertices : graph \in MultiDigraphs(n)
    /\ IsrInit
    /\ source_vertex = Idle /\ algo = Idle /\ elements = Idle
    /\ lazy = Idle /\ lazy_written = Idle /\ lazy_ret = Idle
    /\ boruvka = Idle /\ iqs = Idle /\ idfs = Idle
    /\ sssd_bfs = Idle /\ sssd_dijkstra = Idle
    /\ parallel_bfs = Idle /\ parallel_dijkstra = Idle
    /\ MoreEnumeratorsIdle
    /\ ibfs = Idle /\ uf = Idle /\ uf_unions = Idle /\ td = Idle
    /\ instance = Idle /\ f2cmax = Idle /\ partitioned = Idle

SpecIsr == InitIsr /\ [][IsrNext]_vars

\* ------------------------------------------------------------------
\* F2||C_max: scheduling/flow_shop/f2_cmax.rs
MaxJobs == 3
MaxTime == 4

\* Job { id, operations: vec![p1, p2] }; operations[0] of the code is
\* operations[1] here
Job(id, p1, p2) == [id |-> id, operations |-> <<p1, p2>>]

\* SchedulePartial { job, machine, time }
SchedulePartial(job, machine, time) == [job |-> job, machine |-> machine, time |-> time]

\* input.jobs.iter().filter(|j| j.operations[0] <= j.operations[1]).collect()
jobs_faster_or_equal_on_machine_1(input) ==
    SelectSeq(input.jobs, LAMBDA j : j.operations[1] <= j.operations[2])

\* input.jobs.iter().filter(|j| j.operations[0] > j.operations[1]).collect()
jobs_faster_on_machine_2(input) ==
    SelectSeq(input.jobs, LAMBDA j : j.operations[1] > j.operations[2])

\* the comparators of EnumerateWithIQS::new as keys: operations[0], and
\* operations[0] reversed
key_machine_1(j) == j.operations[1]
key_machine_1_reversed(j) == 0 - j.operations[1]

\* the keys of rust_unstable_sort: operations[0], and Reverse(operations[1])
key_machine_2_reversed(j) == 0 - j.operations[2]

\* the key a comparator or key function orders a job by
job_key(comparator, j) ==
    CASE comparator = "operations[0]" -> key_machine_1(j)
      [] comparator = "operations[0] reversed" -> key_machine_1_reversed(j)
      [] comparator = "Reverse(operations[1])" -> key_machine_2_reversed(j)

\* the jobs, each with its key first
with_key(jobs, comparator) ==
    [i \in 1..Len(jobs) |-> <<job_key(comparator, jobs[i]), jobs[i]>>]

\* IQS::with_comparator(&jobs, comparator)
iqs_of_jobs(jobs, comparator) ==
    [a |-> with_key(jobs, comparator),
     s |-> <<Len(jobs)>>,
     idx |-> 0,
     ret |-> None]

\* EnumerateWithIQS::new; iqs is the Chain of the two IQS, a_live its first half
EnumerateWithIQS(input) ==
    [iqs |-> [a |-> iqs_of_jobs(jobs_faster_or_equal_on_machine_1(input), "operations[0]"),
              a_live |-> TRUE,
              b |-> iqs_of_jobs(jobs_faster_on_machine_2(input), "operations[0] reversed"),
              ret |-> None],
     time_machine_1 |-> 0,
     next_machine_1 |-> None,
     time_machine_2 |-> 0,
     queue_machine_2 |-> <<>>,
     ret |-> None]

\* the second half of Chain::next: the first iterator has returned a1 or is gone
chain_second(c, a1) ==
    IF c.a_live /\ a1.ret # None
    THEN [c EXCEPT !.a = a1, !.ret = a1.ret]
    ELSE [a |-> IF c.a_live THEN a1 ELSE c.a,
          a_live |-> FALSE,
          b |-> iqs_next(c.b),
          ret |-> iqs_next(c.b).ret]

\* Chain::next: the first iterator until it returns None, then the second
chain_next(c) == chain_second(c, iqs_next(c.a))

\* min_time: min_by_key returns its first argument when the times are equal
min_time(sp1, sp2) ==
    IF ~IsSome(sp1) THEN sp2
    ELSE IF ~IsSome(sp2) THEN sp1
    ELSE IF Unwrap(sp1).time <= Unwrap(sp2).time THEN sp1 ELSE sp2

\* max of two times
max_time(t1, t2) == IF t1 >= t2 THEN t1 ELSE t2

\* the body of if let Some(j) = self.iqs.next(), the chain being c after the call
f2cmax_start(st, c, j) ==
    [iqs |-> c,
     time_machine_1 |-> st.time_machine_1 + j.operations[1],
     next_machine_1 |-> Some(SchedulePartial(j.id, 1, st.time_machine_1)),
     time_machine_2 |->
        max_time(st.time_machine_2, st.time_machine_1 + j.operations[1]) + j.operations[2],
     queue_machine_2 |->
        Append(st.queue_machine_2,
               SchedulePartial(j.id, 2,
                    max_time(st.time_machine_2, st.time_machine_1 + j.operations[1]))),
     ret |-> None]

\* the first half of next, the chain being c after its call
f2cmax_fetched(st, c) ==
    IF ~IsSome(c.ret) THEN [st EXCEPT !.iqs = c, !.ret = c.ret]
    ELSE f2cmax_start(st, c, Unwrap(c.ret)[2])

\* the first half of next: fetch the next job when machine 1 has none
f2cmax_fetch(st) ==
    IF IsSome(st.next_machine_1) THEN st ELSE f2cmax_fetched(st, chain_next(st.iqs))

\* self.queue_machine_2.front().copied()
front(queue) == IF queue = <<>> THEN None ELSE Some(Head(queue))

\* the second half of next: emit the next earliest schedule entry m
f2cmax_emit(st, m) ==
    IF st.ret = Panic THEN st
    ELSE IF ~IsSome(m) THEN [st EXCEPT !.ret = None]
    ELSE IF Unwrap(m).machine = 1
         THEN [st EXCEPT !.next_machine_1 = None, !.ret = st.next_machine_1]
         ELSE [st EXCEPT !.queue_machine_2 = Tail(@), !.ret = front(st.queue_machine_2)]

\* the second half of next on the enumerator st
f2cmax_second(st) == f2cmax_emit(st, min_time(st.next_machine_1, front(st.queue_machine_2)))

\* EnumerateWithIQS::next: the enumerator after the call, its return value in ret
f2cmax_next(st) == f2cmax_second(f2cmax_fetch(st))

\* sort_unstable_by_key on jobs with pairwise different keys, each job given
\* with its key first
RECURSIVE sort_unstable_by_key(_)
sort_unstable_by_key(keyed) ==
    IF keyed = <<>> THEN <<>>
    ELSE LET m == CHOOSE i \in 1..Len(keyed) : \A k \in 1..Len(keyed) : keyed[i][1] <= keyed[k][1]
         IN  <<keyed[m][2]>> \o
             sort_unstable_by_key(SubSeq(keyed, 1, m - 1) \o SubSeq(keyed, m + 1, Len(keyed)))

\* the for loop of rust_unstable_sort over jobs[k..]
RECURSIVE schedule_loop(_, _, _, _, _)
schedule_loop(jobs, k, time_machine_1, time_machine_2, schedule) ==
    IF k > Len(jobs) THEN schedule
    ELSE LET j == jobs[k]
             start_time_m1 == time_machine_1
             t1 == time_machine_1 + j.operations[1]
             start_time_m2 == IF time_machine_2 >= t1 THEN time_machine_2 ELSE t1
         IN  schedule_loop(jobs, k + 1, t1, start_time_m2 + j.operations[2],
                schedule \o <<SchedulePartial(j.id, 1, start_time_m1),
                              SchedulePartial(j.id, 2, start_time_m2)>>)

\* schedule.sort_by_key(|p| p.time): stable
RECURSIVE sort_by_time(_)
sort_by_time(schedule) ==
    IF schedule = <<>> THEN <<>>
    ELSE LET rest == sort_by_time(SubSeq(schedule, 1, Len(schedule) - 1))
             p == schedule[Len(schedule)]
             before == SelectSeq(rest, LAMBDA q : q.time <= p.time)
             after == SelectSeq(rest, LAMBDA q : q.time > p.time)
         IN  before \o <<p>> \o after

\* rust_unstable_sort
rust_unstable_sort(input) ==
    sort_by_time(schedule_loop(
        sort_unstable_by_key(with_key(jobs_faster_or_equal_on_machine_1(input), "operations[0]"))
            \o sort_unstable_by_key(
                    with_key(jobs_faster_on_machine_2(input), "Reverse(operations[1])")),
        1, 0, 0, <<>>))

\* the instances of up to MaxJobs jobs with ids 1, 2, ... whose processing
\* times are 1..MaxTime and pairwise different on each machine
Instances ==
    UNION {{[machines |-> 2, jobs |-> [i \in 1..n |-> Job(i, p1[i], p2[i])]] :
                p1 \in {f \in [1..n -> 1..MaxTime] : \A x, y \in 1..n : x # y => f[x] # f[y]},
                p2 \in {f \in [1..n -> 1..MaxTime] : \A x, y \in 1..n : x # y => f[x] # f[y]}}
           : n \in 0..MaxJobs}

\* EnumerateWithIQS::new(&instance)
F2CmaxInit ==
    /\ out = <<>>
    /\ f2cmax = EnumerateWithIQS(instance)

\* one call of EnumerateWithIQS::next
F2CmaxNext ==
    /\ ~Panicked
    /\ Len(out) < 2 * Len(instance.jobs) + MaxExtraCalls
    /\ f2cmax' = f2cmax_next(f2cmax)
    /\ out' = Append(out, f2cmax'.ret)
    /\ UNCHANGED all_but_f2cmax

InitF2Cmax ==
    /\ instance \in Instances
    /\ F2CmaxInit
    /\ graph = Idle /\ source_vertex = Idle /\ algo = Idle /\ elements = Idle
    /\ lazy = Idle /\ lazy_written = Idle /\ lazy_ret = Idle
    /\ boruvka = Idle /\ iqs = Idle /\ idfs = Idle
    /\ sssd_bfs = Idle /\ sssd_dijkstra = Idle
    /\ parallel_bfs = Idle /\ parallel_dijkstra = Idle
    /\ MoreEnumeratorsIdle
    /\ ibfs = Idle /\ uf = Idle /\ uf_unions = Idle /\ td = Idle /\ isr = Idle
    /\ partitioned = Idle

SpecF2Cmax == InitF2Cmax /\ [][F2CmaxNext]_vars

\* ------------------------------------------------------------------
\* one call of partition on a slice: incremental_quick_sort.rs

\* let mut a = elements
PartitionInit == partitioned = [a |-> elements, ret |-> None]

\* let pidx = partition(&mut a, &comparator); a.last() of an empty slice is
\* None and the expect panics
PartitionCall ==
    /\ partitioned.ret = None
    /\ partitioned' = IF elements = <<>>
                      THEN [a |-> elements, ret |-> Panic]
                      ELSE LET r == partition(elements)
                           IN  [a |-> r.a, ret |-> Some(r.ret)]
    /\ UNCHANGED all_but_partitioned

InitPartition ==
    /\ elements \in Slices
    /\ PartitionInit
    /\ graph = Idle /\ source_vertex = Idle /\ algo = Idle
    /\ lazy = Idle /\ lazy_written = Idle /\ lazy_ret = Idle
    /\ out = Idle /\ boruvka = Idle /\ iqs = Idle /\ idfs = Idle
    /\ sssd_bfs = Idle /\ sssd_dijkstra = Idle
    /\ parallel_bfs = Idle /\ parallel_dijkstra = Idle
    /\ MoreEnumeratorsIdle
    /\ ibfs = Idle /\ uf = Idle /\ uf_unions = Idle /\ td = Idle /\ isr = Idle
    /\ instance = Idle /\ f2cmax = Idle

SpecPartition == InitPartition /\ [][PartitionCall]_vars

\* ------------------------------------------------------------------
\* the four spanning tree enumerators on the smallest connected graphs
MaxSmallVertices == 3

InitMstEnumerators ==
    /\ LaterObjectsIdle
    /\ \E n \in 1..MaxSmallVertices : graph \in MstGraphs(n)
    /\ source_vertex = Idle /\ elements = Idle
    /\ lazy = Idle /\ lazy_written = Idle /\ lazy_ret = Idle
    /\ iqs = Idle /\ idfs = Idle /\ sssd_bfs = Idle /\ sssd_dijkstra = Idle
    /\ parallel_bfs = Idle /\ parallel_dijkstra = Idle
    /\ apsd_rows = Idle /\ apsd_no_self = Idle
    /\ \/ /\ algo = "boruvka"
          /\ BoruvkaInit
          /\ kruskal = Idle /\ prim = Idle /\ enum_mst = Idle
       \/ /\ algo \in {"data", "data-source-sink"}
          /\ kruskal = Kruskal(graph, <<algo>>)
          /\ out = <<>>
          /\ boruvka = Idle /\ prim = Idle /\ enum_mst = Idle
       \/ /\ algo \in {"data", "data-source-sink"}
          /\ prim = Prim(graph, <<algo>>)
          /\ out = <<>>
          /\ boruvka = Idle /\ kruskal = Idle /\ enum_mst = Idle
       \/ /\ algo \in {"enum-boruvka", "enum-kruskal", "enum-prim"}
          /\ enum_mst = EnumMST(graph)
          /\ out = <<>>
          /\ boruvka = Idle /\ kruskal = Idle /\ prim = Idle

NextMstEnumerators ==
    \/ boruvka # Idle /\ BoruvkaNext
    \/ kruskal # Idle /\ KruskalNext
    \/ prim # Idle /\ PrimNext
    \/ enum_mst # Idle /\ EnumMstNext

SpecMstEnumerators == InitMstEnumerators /\ [][NextMstEnumerators]_vars

\* ------------------------------------------------------------------ claims
\* C1: on a connected graph with n >= 2 vertices, the first n-1 next() calls
\* of the IncrementalBoruvka enumerator return Some(edge) and call n is the
\* first to return None: no None while tree edges remain to be emitted.
C1_BoruvkaNoneOnlyAfterAllEdges ==
    num_vertices(graph) >= 2 =>
        \A i \in 1..Len(out) :
            /\ (i <= num_vertices(graph) - 1 => IsSome(out[i]))
            /\ (i = num_vertices(graph) => out[i] = None)

\* C2: after any sequence of set/get/get_or/get_or_default calls on a
\* LazyArray, and whatever the never-written cells of data_indices and
\* reverse_indices read as, get(i) is Some(v) exactly when i is inside the
\* bounds and was written before, v being the value last written there; every
\* other index (all of them on a fresh array) gets None, so a write at i
\* changes get(j) for no j # i. The last get call returned just that.
C2_LazyGetIsLastWritten ==
    lazy # Idle =>
        /\ \A i \in 0..lazy.size : \A junk \in Junk(lazy) :
               get(lazy, i, junk) = IF i < lazy.size THEN lazy_written[i] ELSE None
        /\ lazy_ret.op = "get" =>
               lazy_ret.ret = IF lazy_ret.index < lazy.size
                              THEN lazy_written[lazy_ret.index] ELSE None

\* a get that returned a value of an array holding two values and an index
\* never written
C2_Witness ==
    /\ lazy # Idle
    /\ lazy_ret.op = "get"
    /\ IsSome(lazy_ret.ret)
    /\ lazy.num_valid >= 2
    /\ \E i \in 0..(lazy.size - 1) : lazy_written[i] = None

\* the key of a k-th smallest element of the slice
kth_smallest_key(es, k) ==
    CHOOSE v \in 1..MaxKey :
        /\ Cardinality({i \in 1..Len(es) : es[i][1] <= v}) >= k
        /\ Cardinality({i \in 1..Len(es) : es[i][1] < v}) < k

\* C3: IQS yields exactly len elements, a permutation of the input slice in
\* non-decreasing comparator order: call k <= len returns an element of the
\* input not returned before whose key is the k-th smallest, and every later
\* call returns None, also when many elements compare equal.
C3_IqsYieldsSortedPermutation ==
    iqs # Idle =>
        \A k \in 1..Len(out) :
            IF k <= Len(elements)
            THEN /\ IsSome(out[k])
                 /\ \E i \in 1..Len(elements) : Unwrap(out[k]) = elements[i]
                 /\ \A j \in 1..(k - 1) : out[j] # out[k]
                 /\ Unwrap(out[k])[1] = kth_smallest_key(elements, k)
            ELSE out[k] = None

\* a slice with three equivalent elements, a smaller one after them and a
\* larger one before them, enumerated to the end
C3_Witness ==
    /\ iqs # Idle
    /\ Len(elements) = MaxLen
    /\ Len(out) = MaxLen + 1
    /\ out[Len(out)] = None
    /\ \E v \in 1..MaxKey :
        /\ Cardinality({i \in 1..Len(elements) : elements[i][1] = v}) >= 3
        /\ elements[1][1] > v
        /\ elements[Len(elements)][1] < v

\* C4: on every directed graph, self-loops and several DFS trees included, the
\* events the IDFS::next() calls return are the events the recursive dfs
\* passes to its visitor, in the same order, and None follows the last one.
C4_IdfsMatchesRecursiveDfs ==
    idfs # Idle =>
        \A k \in 1..Len(out) :
            out[k] = IF k <= Len(dfs(graph)) THEN Some(dfs(graph)[k]) ELSE None

\* a finished enumeration with a self-loop, a back edge between two vertices
\* and a second DFS tree
C4_Witness ==
    /\ idfs # Idle
    /\ out # <<>> /\ out[Len(out)] = None
    /\ \E i, j, k \in 1..Len(out), u, v, r \in Vertices(graph) :
        /\ out[i] = Some(BackEdge(u, u, 1))
        /\ out[j] = Some(BackEdge(u, v, 1)) /\ u # v
        /\ out[k] = Some(Discovered(r)) /\ k > 1 /\ out[k - 1][1] = "Some"
        /\ out[k - 1][2][1] = "Finished"

\* calls 1..n return one result for each vertex, none twice, with the
\* distance expected[v]; every later call returns None
OneResultPerVertex(expected) ==
    \A k \in 1..Len(out) :
        IF k <= num_vertices(graph)
        THEN /\ IsSome(out[k])
             /\ Unwrap(out[k])[1] = source_vertex
             /\ Unwrap(out[k])[2] \in Vertices(graph)
             /\ Unwrap(out[k])[3] = expected[Unwrap(out[k])[2]]
             /\ \A j \in 1..(k - 1) : Unwrap(out[j])[2] # Unwrap(out[k])[2]
        ELSE out[k] = None

\* C5: the unweighted SSSD enumerator emits exactly n results, one for each
\* vertex and none twice; a vertex reachable from the source comes with its
\* BFS hop distance, every other vertex with None.
C5_HopSssdOneResultPerVertex ==
    sssd_bfs # Idle => OneResultPerVertex(hop_distances(graph, source_vertex))

\* a finished hop enumeration on three vertices, one of them a neighbor of the
\* source and one unreachable from it
C5_Witness ==
    /\ sssd_bfs # Idle
    /\ num_vertices(graph) = 3
    /\ Len(out) = num_vertices(graph) + 1
    /\ out[Len(out)] = None
    /\ \E i, j \in 1..Len(out) :
        /\ IsSome(out[i]) /\ Unwrap(out[i])[3] = Some(1)
        /\ IsSome(out[j]) /\ Unwrap(out[j])[3] = None

\* C6: with non-negative weights, zero included, the weighted SSSD enumerator
\* emits exactly one result per vertex, with the distance the batch dijkstra
\* function returns for it; a vertex pushed on the priority queue several times
\* is emitted once, its deprecated entries being discarded.
C6_DijkstraSssdMatchesBatch ==
    sssd_dijkstra # Idle => OneResultPerVertex(dijkstra(graph, source_vertex))

\* a run over a zero-weight edge in which a vertex already emitted still has
\* a deprecated entry on the priority queue
C6_Witness ==
    /\ sssd_dijkstra # Idle
    /\ \E u \in Vertices(graph) : \E k \in 1..Len(adjacencies(graph, u)) :
        adjacencies(graph, u)[k][2] = 0
    /\ \E i \in 1..Len(sssd_dijkstra.priority_queue), j \in 1..Len(out) :
        /\ IsSome(out[j])
        /\ Unwrap(out[j])[2] = sssd_dijkstra.priority_queue[i][2]
        /\ deprecated(sssd_dijkstra.priority_queue[i][1], sssd_dijkstra.distances,
                      sssd_dijkstra.priority_queue[i][2])

\* the distance of result a is at most that of result b, None being infinite
distance_le(a, b) == b[3] = None \/ (a[3] # None /\ Unwrap(a[3]) <= Unwrap(b[3]))

\* C7: in every run of either SSSD enumerator the results with a distance are
\* emitted in non-decreasing distance order, all of them before the first
\* result with None.
C7_SssdNonDecreasing ==
    (sssd_bfs # Idle \/ sssd_dijkstra # Idle) =>
        \A i, j \in 1..Len(out) :
            (i < j /\ IsSome(out[i]) /\ IsSome(out[j])) =>
                distance_le(Unwrap(out[i]), Unwrap(out[j]))

\* a finished run that emitted three different distances and then a None result
C7_Witness ==
    /\ sssd_bfs # Idle \/ sssd_dijkstra # Idle
    /\ out # <<>> /\ out[Len(out)] = None
    /\ \E i \in 1..Len(out) : IsSome(out[i]) /\ Unwrap(out[i])[3] = None
    /\ Cardinality({Unwrap(out[i])[3] : i \in {k \in 1..Len(out) : IsSome(out[k])}}) >= 3

\* the results emitted so far are in non-decreasing distance order, None
\* counting as infinity
SortedByDistance ==
    \A i, j \in 1..Len(out) :
        (i < j /\ IsSome(out[i]) /\ IsSome(out[j])) =>
            distance_le(Unwrap(out[i]), Unwrap(out[j]))

\* C8: the results of the hop-distance sorted APSD enumerator are in
\* non-decreasing distance order across all sources together: no result with
\* distance d after one with a larger distance, none with a distance after a
\* None result.
C8_ParallelBfsSorted ==
    parallel_bfs # Idle => SortedByDistance

\* a finished run in which two sources emitted a result at hop distance 1, one
\* of them came back for a result at hop distance 2, and a pair was unreachable
C8_Witness ==
    /\ parallel_bfs # Idle
    /\ out # <<>> /\ out[Len(out)] = None
    /\ \E i, j, k, l \in 1..Len(out) :
        /\ IsSome(out[i]) /\ IsSome(out[j]) /\ IsSome(out[k]) /\ IsSome(out[l])
        /\ Unwrap(out[i])[3] = Some(1) /\ Unwrap(out[j])[3] = Some(1)
        /\ Unwrap(out[i])[1] # Unwrap(out[j])[1]
        /\ Unwrap(out[k])[3] = Some(2) /\ Unwrap(out[k])[1] = Unwrap(out[i])[1]
        /\ i < j /\ j < k
        /\ Unwrap(out[l])[3] = None

\* C9: the results of the weighted sorted APSD enumerator are in non-decreasing
\* distance order across all sources together, None counting as infinity; the
\* part a call returns is no farther than the pending part of any search left
\* on the heap.
C9_ParallelDijkstraSorted ==
    parallel_dijkstra # Idle =>
        /\ SortedByDistance
        /\ (out # <<>> /\ IsSome(out[Len(out)]) /\ IsSome(parallel_dijkstra.dijkstra_queue)) =>
              \A i \in 1..Len(Unwrap(parallel_dijkstra.dijkstra_queue)) :
                  distance_le(Unwrap(out[Len(out)]),
                              Unwrap(parallel_dijkstra.dijkstra_queue)[i].part)

\* a call that returned a part with a positive distance while the heap held a
\* search pending at a larger distance and one pending with None
C9_Witness ==
    /\ parallel_dijkstra # Idle
    /\ out # <<>> /\ IsSome(out[Len(out)])
    /\ Unwrap(out[Len(out)])[3] # None
    /\ Unwrap(out[Len(out)])[3] # Some(0)
    /\ IsSome(parallel_dijkstra.dijkstra_queue)
    /\ \E i, j \in 1..Len(Unwrap(parallel_dijkstra.dijkstra_queue)) :
        /\ Unwrap(parallel_dijkstra.dijkstra_queue)[i].part[3] = None
        /\ Unwrap(parallel_dijkstra.dijkstra_queue)[j].part[3] # None
        /\ ~distance_le(Unwrap(parallel_dijkstra.dijkstra_queue)[j].part,
                        Unwrap(out[Len(out)]))

\* calls 1..n*n return one result for each ordered pair, none twice, with the
\* distance matrix[source][target]; every later call returns None
OneResultPerPair(matrix) ==
    \A k \in 1..Len(out) :
        IF k <= num_vertices(graph) * num_vertices(graph)
        THEN /\ IsSome(out[k])
             /\ Unwrap(out[k])[1] \in Vertices(graph)
             /\ Unwrap(out[k])[2] \in Vertices(graph)
             /\ Unwrap(out[k])[3] = matrix[Unwrap(out[k])[1]][Unwrap(out[k])[2]]
             /\ \A j \in 1..(k - 1) :
                    <<Unwrap(out[j])[1], Unwrap(out[j])[2]>>
                        # <<Unwrap(out[k])[1], Unwrap(out[k])[2]>>
        ELSE out[k] = None

\* C10: each of the two sorted APSD enumerators emits exactly n*n results, one
\* for every ordered pair (source, target), with the distance of the batch
\* all-pairs matrix; requeueing a search, moving it to the finalization queue
\* or re-inserting it into the heap loses and duplicates nothing.
C10_SortedApsdOnePerPair ==
    /\ parallel_bfs # Idle => OneResultPerPair(apsd_bfs(graph))
    /\ parallel_dijkstra # Idle => OneResultPerPair(apsd_dijkstra(graph))

\* a finished run on three vertices that emitted distances 1 and 2 and None
C10_Witness ==
    /\ parallel_bfs # Idle \/ parallel_dijkstra # Idle
    /\ num_vertices(graph) = 3
    /\ Len(out) = 10 /\ out[Len(out)] = None
    /\ \A d \in {Some(1), Some(2), None} :
        \E i \in 1..9 : Unwrap(out[i])[3] = d

\* C11: each of the two arbitrary-order APSD enumerators emits exactly n*n
\* results, one for every ordered pair (source, target), and the distance of
\* each result is the entry of the batch matrix: apsd_bfs for apsd-enum-bfs,
\* apsd_dijkstra for apsd-enum-dijkstra.
C11_ApsdRowsOnePerPair ==
    /\ algo = "apsd-enum-bfs" => OneResultPerPair(apsd_bfs(graph))
    /\ algo = "apsd-enum-dijkstra" => OneResultPerPair(apsd_dijkstra(graph))

\* a finished run of an arbitrary-order enumerator on three vertices that
\* emitted a distance of 2 and an unreachable pair
C11_Witness ==
    /\ apsd_rows # Idle
    /\ num_vertices(graph) = 3
    /\ Len(out) = 10 /\ out[Len(out)] = None
    /\ \A d \in {Some(1), Some(2), None} :
        \E i \in 1..9 : Unwrap(out[i])[3] = d

\* C12: a no-self APSD enumerator never emits a result whose source equals
\* its target, and it emits exactly n*n - n results, one for every ordered
\* pair of different vertices, each with the distance of the batch matrix, on
\* every graph, self-loops included.
C12_NoSelfOnePerPair ==
    LET n == num_vertices(graph)
        matrix == IF algo = "apsd-enum-bfs-no-self"
                  THEN apsd_bfs(graph) ELSE apsd_dijkstra(graph)
    IN  \A k \in 1..Len(out) :
            IF k <= n * n - n
            THEN /\ IsSome(out[k])
                 /\ Unwrap(out[k])[1] # Unwrap(out[k])[2]
                 /\ Unwrap(out[k])[3] = matrix[Unwrap(out[k])[1]][Unwrap(out[k])[2]]
                 /\ \A j \in 1..(k - 1) : <<Unwrap(out[j])[1], Unwrap(out[j])[2]>>
                                            # <<Unwrap(out[k])[1], Unwrap(out[k])[2]>>
            ELSE out[k] = None

\* C13: in every run of a sorted or arbitrary-order APSD enumerator the first
\* n results are the self-distances (u, u, 0) for u = 0..n-1 in vertex order,
\* and no later result has its source equal to its target.
C13_SelfDistancesFirst ==
    \A k \in 1..Len(out) :
        IF k <= num_vertices(graph)
        THEN out[k] = Some(Partial(k - 1, k - 1, Some(0)))
        ELSE IsSome(out[k]) => Unwrap(out[k])[1] # Unwrap(out[k])[2]

\* a run on three vertices emitted the three self-distances and a later
\* result of distance 0 between two different vertices
C13_Witness ==
    /\ num_vertices(graph) = 3
    /\ Len(out) > 3
    /\ \E k \in 4..Len(out) : IsSome(out[k]) /\ Unwrap(out[k])[3] = Some(0)

\* C14: on every connected graph with n >= 1 vertices and under each
\* comparator, IncrementalKruskal emits exactly n-1 edges and then None; the
\* edges come in non-decreasing comparator order, each joins two components
\* that the edges emitted before it left apart, and the total weight is the
\* weight of a minimum spanning tree.
C14_KruskalEmitsMst ==
    LET n == num_vertices(graph)
    IN  /\ \A k \in 1..Len(out) : IF k <= n - 1 THEN IsSome(out[k]) ELSE out[k] = None
        /\ \A k \in 2..Len(Emitted) :
                comparator_key(<<algo>>, n, Emitted[k - 1])
                    <= comparator_key(<<algo>>, n, Emitted[k])
        /\ \A k \in 1..Len(Emitted) :
                sink(Emitted[k]) \notin
                    connected_to(Range(SubSeq(Emitted, 1, k - 1)), {source(Emitted[k])})
        /\ Len(out) = n - 1 => emitted_weight(Len(Emitted)) = mst_weight(graph)

\* a finished run on five vertices that skipped an edge inside a component
\* besides the second copies of the emitted edges
C14_Witness ==
    /\ kruskal # Idle
    /\ num_vertices(graph) = 5
    /\ Len(out) = 5 /\ out[5] = None
    /\ kruskal.sorted_edges.idx > 2 * 4

\* C15: on every connected graph with n >= 1 vertices IncrementalPrim emits
\* exactly n-1 edges and then None; it never emits the fictitious self-edge
\* of vertex 0; every emitted (child, parent, w) is an edge of the graph whose
\* parent was attached to the tree of vertex 0 before the call and whose child
\* was not; and the total weight equals the weight of the forest that batch
\* Prim returns.
C15_PrimEmitsTree ==
    LET n == num_vertices(graph)
        attached(k) == {0} \cup {Emitted[j][1] : j \in 1..(k - 1)}
    IN  /\ \A k \in 1..Len(out) : IF k <= n - 1 THEN IsSome(out[k]) ELSE out[k] = None
        /\ \A k \in 1..Len(Emitted) :
                /\ Emitted[k][1] # Emitted[k][2]
                /\ <<Emitted[k][2], Emitted[k][1], Emitted[k][3]>> \in Range(edges(graph))
                /\ Emitted[k][2] \in attached(k)
                /\ Emitted[k][1] \notin attached(k)
        /\ Len(out) = n - 1 =>
                \A tree \in comparator_st_for(graph, <<algo>>) :
                    emitted_weight(Len(Emitted)) = forest_weight(tree, 0)

\* a finished run on five vertices that emitted a cheaper edge after a dearer
\* one and whose last call found no vertex to attach
C15_Witness ==
    /\ prim # Idle
    /\ num_vertices(graph) = 5
    /\ Len(out) = 5 /\ out[5] = None
    /\ prim.target_queue = <<>>
    /\ \E k \in 2..4 : Emitted[k][3] < Emitted[k - 1][3]

\* the tree edges of a forest, each from the child to its parent
forest_edges(forest) ==
    {<<u, Unwrap(forest[u])[1], Unwrap(forest[u])[2]>> :
        u \in {x \in DOMAIN forest : IsSome(forest[x])}}

\* C16: on every connected graph with n >= 2 vertices and with each black box,
\* EnumMST emits exactly n-1 edges and then None, no undirected edge twice;
\* every edge preselected in the credit accumulation phase is an edge of the
\* tree the black box returns; the finalization emits exactly the edges of that
\* tree that were not preselected; the total weight is that of a minimum
\* spanning tree.
C16_EnumMstEmitsMst ==
    LET n == num_vertices(graph)
        selected == enum_mst.selected_edges
        tree == forest_edges(enum_mst.mst)
        in_tree(e) == e \in tree \/ <<sink(e), source(e), data(e)>> \in tree
    IN  /\ \A k \in 1..Len(out) : IF k <= n - 1 THEN IsSome(out[k]) ELSE out[k] = None
        /\ \A j, k \in 1..Len(Emitted) :
                j < k => {source(Emitted[j]), sink(Emitted[j])}
                            # {source(Emitted[k]), sink(Emitted[k])}
        /\ SubSeq(Emitted, 1, Len(selected)) = selected
        /\ enum_mst.phase = "OutputFinalizationPhase" =>
                /\ \A i \in 1..Len(selected) : in_tree(selected[i])
                /\ \A k \in (Len(selected) + 1)..Len(Emitted) :
                        Emitted[k] \in tree /\ ~is_preselected(enum_mst.forest, Emitted[k])
        /\ Len(out) >= n =>
                {e \in tree : ~is_preselected(enum_mst.forest, e)}
                    = {Emitted[k] : k \in (Len(selected) + 1)..Len(Emitted)}
        /\ Len(out) = n - 1 => emitted_weight(Len(Emitted)) = mst_weight(graph)

\* a finished run on five vertices that preselected three edges and emitted
\* the fourth in the finalization
C16_Witness ==
    /\ enum_mst # Idle
    /\ num_vertices(graph) = 5
    /\ Len(out) = 5 /\ out[5] = None
    /\ Len(enum_mst.selected_edges) = 3

\* the adjacency (sink, data) of u that no adjacency of u is cheaper than, the
\* smaller sink deciding between equal data
cheapest_adjacency(u) ==
    CHOOSE a \in Range(adjacencies(graph, u)) :
        \A b \in Range(adjacencies(graph, u)) :
            a[2] < b[2] \/ (a[2] = b[2] /\ a[1] <= b[1])

\* C17: over one pass of credit_accumulation_step on a connected graph with
\* n >= 2 vertices, every emitted edge (u, v, w) is the cheapest edge at u, ties
\* broken by the smaller sink, the sources come in increasing order, no
\* undirected edge is emitted twice, and an edge that both of its endpoints
\* select is emitted from the smaller endpoint only.
C17_CreditAccumulationSelectsCheapest ==
    LET selected == enum_mst.selected_edges
    IN  /\ \A k \in 1..Len(selected) :
                /\ <<sink(selected[k]), data(selected[k])>>
                        = cheapest_adjacency(source(selected[k]))
                /\ cheapest_adjacency(sink(selected[k]))[1] = source(selected[k])
                        => source(selected[k]) < sink(selected[k])
        /\ \A j, k \in 1..Len(selected) :
                j < k => /\ source(selected[j]) < source(selected[k])
                         /\ {source(selected[j]), sink(selected[j])}
                                # {source(selected[k]), sink(selected[k])}
        /\ enum_mst.phase = "OutputFinalizationPhase" =>
                \A u \in Vertices(graph) :
                    LET v == cheapest_adjacency(u)[1]
                    IN  \E k \in 1..Len(selected) :
                            {source(selected[k]), sink(selected[k])} = {u, v}

\* a finished pass that emitted an edge from its larger endpoint and skipped
\* an edge that its smaller endpoint had emitted
C17_Witness ==
    /\ enum_mst # Idle
    /\ enum_mst.phase = "OutputFinalizationPhase"
    /\ \E k \in 1..Len(enum_mst.selected_edges) :
            source(enum_mst.selected_edges[k]) > sink(enum_mst.selected_edges[k])
    /\ \E u \in Vertices(graph) :
            \A k \in 1..Len(enum_mst.selected_edges) :
                source(enum_mst.selected_edges[k]) # u

\* the edges of es whose endpoints lie in different sets of components
crossing(es, components) ==
    SelectSeq(es, LAMBDA e : chain_root(components, source(e))
                                # chain_root(components, sink(e)))

\* C18: when IncrementalBoruvka switches to the extension phase,
\* crossing_edges holds exactly the graph edges whose endpoints lie in
\* different union-find components at that moment; and after every extension
\* round crossing_edges holds exactly the edges between different components.
C18_CrossingEdgesCross ==
    /\ (/\ boruvka.phase = "CreditAccumulationPhase"
        /\ credit_accumulation_step(graph, boruvka.iterator).result = None)
            => prepare_extension(graph, boruvka).crossing_edges
                    = crossing(edges(graph), boruvka.components)
    /\ boruvka.phase = "ExtensionPhase"
            => boruvka.crossing_edges = crossing(edges(graph), boruvka.components)

\* C19: once a call of next has returned None, every later call returns None
\* too, does not panic, and leaves the enumerator as it was.
C19_NoneIsFinal ==
    [][(out # <<>> /\ out[Len(out)] = None)
        => /\ out'[Len(out')] = None
           /\ UNCHANGED <<first_enumerators, more_enumerators>>]_vars

\* ------------------------------------------------------------------
\* the per-source searches a sorted merge owns

\* the searches of ParallelBfs: none is created before initialize_searches
\* ran, so each source stands at its enumerator as SssdEnumerator::new makes
\* it; afterwards a search sits in bfs_queue or in the finalization chain, or
\* it was discarded
parallel_bfs_searches(g, st) ==
    IF st.bfs_queue = None
    THEN [s \in Vertices(g) |-> Some(UnweightedSssd(g, s))]
    ELSE LET searches == Unwrap(st.bfs_queue) \o st.finalization_queue
         IN  [s \in Vertices(g) |->
                IF \E i \in 1..Len(searches) : searches[i].iter.source = s
                THEN Some(searches[CHOOSE i \in 1..Len(searches) :
                                        searches[i].iter.source = s].iter)
                ELSE None]

\* the searches of ParallelDijkstra: the enumerators of the heap entries
parallel_dijkstra_searches(g, st) ==
    IF st.dijkstra_queue = None
    THEN [s \in Vertices(g) |-> Some(SssdDijkstra(g, s))]
    ELSE LET entries == Unwrap(st.dijkstra_queue)
         IN  [s \in Vertices(g) |->
                IF \E i \in 1..Len(entries) : entries[i].dijkstra.source = s
                THEN Some(entries[CHOOSE i \in 1..Len(entries) :
                                        entries[i].dijkstra.source = s].dijkstra)
                ELSE None]

\* the per-source SSSD enumerators of the sorted merge in use
merge_searches ==
    IF algo = "apsd-enum-bfs-sorted" THEN parallel_bfs_searches(graph, parallel_bfs)
    ELSE parallel_dijkstra_searches(graph, parallel_dijkstra)

\* one call of next on a per-source enumerator of the merge in use
search_next(search) ==
    IF algo = "apsd-enum-bfs-sorted" THEN unweighted_sssd_next(graph, search)
    ELSE sssd_dijkstra_next(graph, search)

\* the merge driver of a sorted enumerator is being called: the trivial
\* iterator in front of it in the chain is exhausted
merge_driver_called ==
    /\ algo \in {"apsd-enum-bfs-sorted", "apsd-enum-dijkstra-sorted"}
    /\ (IF algo = "apsd-enum-bfs-sorted" THEN parallel_bfs.trivial
        ELSE parallel_dijkstra.trivial) = num_vertices(graph)

\* the merge driver is being called for the first time: it has yet to create
\* its searches
merge_driver_first_call ==
    /\ merge_driver_called
    /\ (IF algo = "apsd-enum-bfs-sorted" THEN parallel_bfs.bfs_queue
        ELSE parallel_dijkstra.dijkstra_queue) = None

\* C20 as stated: every call of next on the merge driver of a sorted APSD
\* enumerator advances exactly one per-source SSSD enumerator, by one step.
C20_ExactlyOneSearchAdvanced ==
    [][merge_driver_called
        => \E s \in Vertices(graph) :
            /\ IsSome(merge_searches[s])
            /\ merge_searches'[s] \in {None, Some(search_next(Unwrap(merge_searches[s])))}
            /\ merge_searches'[s] # merge_searches[s]
            /\ \A t \in Vertices(graph) \ {s} : merge_searches'[t] = merge_searches[t]]_vars

\* C20, amended: the first call of next on the merge driver of a sorted APSD
\* enumerator creates every per-source SSSD enumerator and advances each of
\* them; every later call advances at most one of them, by one step, and
\* exactly one when it returns a part with a finite distance.
C20_LaterCallsAdvanceOneSearch ==
    [][merge_driver_called
        => LET advanced == {s \in Vertices(graph) : merge_searches'[s] # merge_searches[s]}
               ret == out'[Len(out')]
           IN  /\ merge_driver_first_call => advanced = Vertices(graph)
               /\ ~merge_driver_first_call
                    => /\ Cardinality(advanced) <= 1
                       /\ \A s \in advanced :
                            /\ IsSome(merge_searches[s])
                            /\ merge_searches'[s]
                                \in {None, Some(search_next(Unwrap(merge_searches[s])))}
                       /\ (IsSome(ret) /\ IsSome(Unwrap(ret)[3]))
                            => Cardinality(advanced) = 1]_vars

\* a later call of a merge driver returned a part with a finite distance while
\* two or more searches were still in its queue
C20_Witness ==
    /\ algo \in {"apsd-enum-bfs-sorted", "apsd-enum-dijkstra-sorted"}
    /\ Len(out) >= num_vertices(graph) + 2
    /\ IsSome(out[Len(out)]) /\ IsSome(Unwrap(out[Len(out)])[3])
    /\ Cardinality({s \in Vertices(graph) : IsSome(merge_searches[s])}) >= 2

\* C21: the events the calls of IBFS::next return are, in order, the events bfs
\* passes to its visitor, and None after them; a TreeEdge(u, v) is followed in
\* the next call by Discovered(v); no vertex is discovered twice, whatever
\* parallel edges and self-loops the graph has.
C21_IbfsMatchesBfs ==
    ibfs # Idle =>
        /\ \A k \in 1..Len(out) :
            out[k] = IF k <= Len(bfs(graph, source_vertex))
                     THEN Some(bfs(graph, source_vertex)[k]) ELSE None
        /\ \A k \in 1..(Len(out) - 1) :
            (IsSome(out[k]) /\ Unwrap(out[k])[1] = "TreeEdge")
                => out[k + 1] = Some(Discovered(Unwrap(out[k])[3]))
        /\ \A i, j \in 1..Len(out) :
            (i # j /\ IsSome(out[i]) /\ Unwrap(out[i])[1] = "Discovered") => out[j] # out[i]

\* a finished run on a graph in which the source has a self-loop and reaches
\* another vertex over two parallel edges
C21_Witness ==
    /\ ibfs # Idle
    /\ out # <<>> /\ out[Len(out)] = None
    /\ \E v \in Vertices(graph) \ {source_vertex} :
        /\ Cardinality({k \in 1..Len(neighbors(graph, source_vertex)) :
                            neighbors(graph, source_vertex)[k] = v}) = 2
        /\ \E k \in 1..Len(out) : out[k] = Some(BfsTreeEdge(source_vertex, v))
    /\ \E k \in 1..Len(neighbors(graph, source_vertex)) :
        neighbors(graph, source_vertex)[k] = source_vertex

\* the positions of out at which the event was returned
positions_of(event) == {k \in 1..Len(out) : out[k] = Some(event)}

\* the call at position k of out returned a TreeEdge or a BackEdge with source u
is_edge_event_from(k, u) ==
    /\ IsSome(out[k])
    /\ Unwrap(out[k])[1] \in {"TreeEdge", "BackEdge"}
    /\ Unwrap(out[k])[2] = u

\* the vertices whose Finished event was returned before position k of out
finished_before(k) ==
    {u \in Vertices(graph) : \E j \in 1..(k - 1) : out[j] = Some(Finished(u))}

\* C22: in a run of IDFS no vertex is discovered twice or finished twice;
\* Discovered(u) comes before every TreeEdge and BackEdge with source u and
\* these come before Finished(u); next returns None exactly in the calls made
\* after all n vertices are finished, so that a run that has returned None has
\* discovered and finished every vertex exactly once; no call panics.
C22_IdfsEventOrder ==
    idfs # Idle =>
        /\ \A u \in Vertices(graph) :
            /\ Cardinality(positions_of(Discovered(u))) <= 1
            /\ Cardinality(positions_of(Finished(u))) <= 1
            /\ \A k \in positions_of(Finished(u)) :
                \E i \in 1..(k - 1) : out[i] = Some(Discovered(u))
            /\ \A k \in 1..Len(out) :
                is_edge_event_from(k, u)
                    => /\ \E i \in 1..(k - 1) : out[i] = Some(Discovered(u))
                       /\ \A j \in 1..k : out[j] # Some(Finished(u))
        /\ \A k \in 1..Len(out) :
            /\ out[k] # Panic
            /\ out[k] = None <=> finished_before(k) = Vertices(graph)

\* a run on 3 vertices that has returned None after a tree edge, a back edge
\* and a second start vertex
C22_Witness ==
    /\ idfs # Idle
    /\ num_vertices(graph) = 3
    /\ out # <<>> /\ out[Len(out)] = None
    /\ \E k \in 1..Len(out) : IsSome(out[k]) /\ Unwrap(out[k])[1] = "TreeEdge"
    /\ \E k \in 1..Len(out) : IsSome(out[k]) /\ Unwrap(out[k])[1] = "BackEdge"
    /\ \E k \in 2..Len(out) :
        /\ IsSome(out[k]) /\ Unwrap(out[k])[1] = "Discovered"
        /\ IsSome(out[k - 1]) /\ Unwrap(out[k - 1])[1] = "Finished"

\* the vertices on the stack of the IDFS
on_dfs_stack == {idfs.dfs_visit_stack[i].vertex : i \in 1..Len(idfs.dfs_visit_stack)}

RECURSIVE joined_to(_)
joined_to(seen) ==
    LET more == {y \in DOMAIN uf_forest :
                    \E x \in seen : <<x, y>> \in uf_unions \/ <<y, x>> \in uf_unions}
    IN  IF more \subseteq seen THEN seen ELSE joined_to(seen \cup more)

\* the element k parent links above x
RECURSIVE ancestor(_, _, _)
ancestor(p, x, k) == IF k = 0 THEN x ELSE ancestor(p, parent_of(p, x), k - 1)

\* C24: after any union and find calls on a UnionFind or a RankedUnionFind,
\* find(x) == find(y) exactly when the unions made so far connect x and y; a
\* find returns the root of its argument and changes neither the root of any
\* element nor, therefore, the partition; the parent links form no cycle.
C24_FindIffConnected ==
    uf # Idle =>
        /\ \A x \in DOMAIN uf_forest :
            parent_of(uf_forest, ancestor(uf_forest, x, Cardinality(DOMAIN uf_forest)))
                = ancestor(uf_forest, x, Cardinality(DOMAIN uf_forest))
        /\ \A x, y \in DOMAIN uf_forest :
            is_same(uf_forest, x, y).same <=> y \in joined_to({x})
        /\ \A x \in DOMAIN uf_forest :
            LET f == find(uf_forest, x)
            IN  /\ f.root = chain_root(uf_forest, x)
                /\ \A y \in DOMAIN uf_forest :
                    chain_root(f.parents, y) = chain_root(uf_forest, y)

\* a find has just moved x past its parent: x hangs below the root it returned
\* although no union call was made with the two
C24_Witness ==
    /\ uf # Idle /\ uf.op = "find"
    /\ uf.ret[1] # uf.ret[2]
    /\ parent_of(uf_forest, uf.ret[1]) = uf.ret[2]
    /\ <<uf.ret[1], uf.ret[2]>> \notin uf_unions /\ <<uf.ret[2], uf.ret[1]>> \notin uf_unions
    /\ \E x, y \in DOMAIN uf_forest : y \notin joined_to({x})

\* C25: a call on a LazyArray with an index at or beyond its size leaves the
\* array as it was; get, get_or, get_or_default and get_or_default_with return
\* None and do not panic, and set panics.
C25_OutOfBoundsCalls ==
    [][(lazy # Idle /\ lazy_ret'.index >= lazy.size)
        => /\ lazy' = lazy
           /\ lazy_written' = lazy_written
           /\ lazy_ret'.ret = IF lazy_ret'.op = "set" THEN Panic ELSE None]_vars

\* a set beyond the bounds has panicked on an array that holds values
C25_Witness ==
    /\ lazy # Idle
    /\ lazy_ret.op = "set" /\ lazy_ret.index >= lazy.size /\ lazy_ret.ret = Panic
    /\ lazy.num_valid >= 2

\* the items the cells of the valid area of the array hold
live_items ==
    {lazy.data[c][2] : c \in {c \in 0..(lazy.num_valid - 1) : lazy.data[c][1] = "Init"}}

\* C26: no item is ever dropped twice and no slot that never held an item is
\* dropped; while the array lives, the items dropped are exactly those made
\* that the array does not hold (an item replaced by set is dropped in that
\* call, a stored item is not dropped), every slot of the valid area holds an
\* item and no two slots hold the same; once the array is dropped, every
\* item made has been dropped exactly once.
C26_ItemsDroppedOnce ==
    td # Idle =>
        /\ td.uninit = 0
        /\ \A id \in 1..MaxItems : td.drops[id] <= 1
        /\ \A id \in (td.items + 1)..MaxItems : td.drops[id] = 0
        /\ ~LazyDropped =>
            /\ \A c \in 0..(lazy.num_valid - 1) : lazy.data[c][1] = "Init"
            /\ Cardinality(live_items) = lazy.num_valid
            /\ \A id \in 1..td.items : td.drops[id] = IF id \in live_items THEN 0 ELSE 1
        /\ LazyDropped => \A id \in 1..td.items : td.drops[id] = 1

\* an array that held two items, after a set had replaced a third, was dropped
\* with unused slots left
C26_Witness ==
    /\ td # Idle /\ LazyDropped
    /\ td.items >= 3
    /\ Cardinality({i \in DOMAIN lazy_written : IsSome(lazy_written[i])}) = 2
    /\ lazy.size = 3
    /\ \E i \in DOMAIN lazy_written : IsSome(lazy_written[i]) /\ Unwrap(lazy_written[i]) = 3

\* the vertices reached from v over at least one edge
reached_from(g, v) == reach_from(g, Range(neighbors(g, v)))

\* the vertices on a cycle and those reachable from one
behind_a_cycle(g) ==
    UNION {reach_from(g, {c}) : c \in {c \in Vertices(g) : c \in reached_from(g, c)}}

\* C27: IterativeSourceRemoval never panics. Its first calls return Ok(v), once
\* for each vertex v that is neither on a cycle nor reachable from one, and the
\* source of every edge into such a vertex has been returned before it; every
\* call after these returns None when the graph is acyclic and Err(HasCycles)
\* when it has a cycle.
C27_SourceRemoval ==
    isr # Idle =>
        LET free == Vertices(graph) \ behind_a_cycle(graph)
            k == Cardinality(free)
        IN  /\ ~Panicked
            /\ \A i \in 1..Len(out) :
                IF i <= k
                THEN /\ IsSome(out[i]) /\ Unwrap(out[i])[1] = "Ok"
                     /\ Unwrap(out[i])[2] \in free
                     /\ \A j \in 1..(i - 1) : out[j] # out[i]
                     /\ \A u \in Vertices(graph) :
                            Unwrap(out[i])[2] \in Range(neighbors(graph, u))
                                => \E j \in 1..(i - 1) : out[j] = Some(Ok(u))
                ELSE out[i] = IF k = num_vertices(graph) THEN None
                              ELSE Some(Err(HasCycles))

\* on a graph of four vertices with a cycle and a vertex behind it that is not
\* on a cycle, two vertices were returned and then the error
C27_Witness ==
    /\ isr # Idle
    /\ num_vertices(graph) = 4
    /\ \E v \in behind_a_cycle(graph) : v \notin reached_from(graph, v)
    /\ Len(out) = 3
    /\ out[3] = Some(Err(HasCycles))
    /\ out[2] # out[3]

\* the number of times x occurs in the sequence s
occurrences(s, x) == Cardinality({i \in 1..Len(s) : s[i] = x})

\* C28: once EnumerateWithIQS has returned None on an instance whose processing
\* times are pairwise different on each machine, the SchedulePartials it has
\* emitted are, as a multiset, the schedule rust_unstable_sort returns.
C28_EnumerationEqualsBatch ==
    (f2cmax # Idle /\ out # <<>> /\ out[Len(out)] = None) =>
        LET batch == rust_unstable_sort(instance)
        IN  /\ Len(Emitted) = Len(batch)
            /\ \A p \in Range(batch) : occurrences(Emitted, p) = occurrences(batch, p)

\* the indices of the array written so far
written_indices == {i \in DOMAIN lazy_written : IsSome(lazy_written[i])}

\* num_valid counts the written indices, and every written index and its data
\* slot point at each other
lazy_indices_consistent ==
    /\ lazy.num_valid = Cardinality(written_indices)
    /\ lazy.num_valid <= lazy.size
    /\ \A i \in written_indices :
        /\ lazy.data_indices[i][1] = "Init"
        /\ lazy.data_indices[i][2] < lazy.num_valid
        /\ lazy.reverse_indices[lazy.data_indices[i][2]] = Init(i)
    /\ \A i, j \in written_indices :
        i # j => lazy.data_indices[i] # lazy.data_indices[j]

\* C29: in every state of a LazyArray of size n, num_valid is the number of
\* distinct indices written so far and at most n, every written index i has
\* data_indices[i] < num_valid and reverse_indices[data_indices[i]] = i, no two
\* written indices share a data slot, and a set at an index already written
\* leaves num_valid and both index arrays as they were.
C29_IndexArrays ==
    /\ [](lazy # Idle => lazy_indices_consistent)
    /\ [][(lazy # Idle /\ lazy_ret'.op = "set" /\ lazy_ret'.index \in written_indices)
            => /\ lazy'.num_valid = lazy.num_valid
               /\ lazy'.data_indices = lazy.data_indices
               /\ lazy'.reverse_indices = lazy.reverse_indices]_vars

\* all three indices of an array are written, the last one first, and the last
\* call was a set that left the value 2 at index 0
C29_Witness ==
    /\ lazy # Idle /\ td = Idle
    /\ lazy.num_valid = 3
    /\ lazy.data_indices[2] = Init(0)
    /\ lazy_ret.op = "set" /\ lazy_ret.index = 0 /\ lazy_ret.ret # Panic
    /\ lazy.data[lazy.data_indices[0][2]] # Init(1)

\* C30: partition of a non-empty slice returns an index p inside the slice; the
\* slice keeps its length and its elements as a multiset; a[p] is equivalent
\* under the comparator to the last element of the slice before the call, no
\* element left of p is greater than a[p] and no element right of p is smaller.
C30_PartitionPostcondition ==
    (partitioned # Idle /\ elements # <<>> /\ partitioned.ret # None) =>
        /\ IsSome(partitioned.ret)
        /\ LET p == Unwrap(partitioned.ret)
               a == partitioned.a
               pivot_value == elements[Len(elements)]
           IN  /\ p \in 0..(Len(elements) - 1)
               /\ Len(a) = Len(elements)
               /\ \A x \in Range(elements) \cup Range(a) :
                    Cardinality({i \in 1..Len(a) : a[i] = x})
                        = Cardinality({i \in 1..Len(elements) : elements[i] = x})
               /\ ~compares_lt(a[p + 1], pivot_value)
               /\ ~compares_lt(pivot_value, a[p + 1])
               /\ \A i \in 0..(p - 1) : ~compares_lt(a[p + 1], a[i + 1])
               /\ \A i \in (p + 1)..(Len(a) - 1) : ~compares_lt(a[i + 1], a[p + 1])

\* partition of a slice of five elements went past the leftmost pivot position
\* to an equivalent element and stopped before a greater one at the middle
C30_Witness ==
    /\ partitioned # Idle /\ Len(elements) = 5
    /\ partitioned.ret = Some(1)
    /\ partitioned.a[1] = elements[5]
    /\ partitioned.a[2] # elements[5]
    /\ compares_lt(partitioned.a[2], partitioned.a[3])

\* the number of elements of the slice before the call that are strictly
\* smaller than its last element, the pivot
smaller_than_pivot ==
    Cardinality({i \in 1..Len(elements) : compares_lt(elements[i], elements[Len(elements)])})

\* C31: with l the number of elements strictly smaller than the pivot and
\* m = len / 2, partition returns p with l <= p <= max(l, m), every element of
\* a[l..=p] is equivalent to the pivot, and p = m when all elements of the slice
\* are equivalent.
C31_PivotMovedTowardsMiddle ==
    (partitioned # Idle /\ elements # <<>> /\ IsSome(partitioned.ret)) =>
        LET p == Unwrap(partitioned.ret)
            a == partitioned.a
            pivot_value == elements[Len(elements)]
            l == smaller_than_pivot
            m == Len(elements) \div 2
        IN  /\ l <= p
            /\ p <= (IF l >= m THEN l ELSE m)
            /\ \A i \in l..p : ~compares_lt(a[i + 1], pivot_value)
                                /\ ~compares_lt(pivot_value, a[i + 1])
            /\ (\A i \in 1..Len(elements) : elements[i][1] = pivot_value[1]) => p = m

\* the five elements of a slice are all equivalent and partition has returned
\* the middle position 2
C31_Witness ==
    /\ partitioned # Idle /\ Len(elements) = 5
    /\ \A i \in 1..5 : elements[i][1] = elements[5][1]
    /\ partitioned.ret = Some(2)

\* C32: right after a call of flatten on a UnionFind, is_same_parent(x, y) is
\* is_same(x, y) for all x and y; in every state is_same_parent(x, y) holds
\* only of elements that is_same finds in the same set.
C32_SameParentAfterFlatten ==
    (uf # Idle /\ algo = "UnionFind") =>
        \A x, y \in DOMAIN uf.components :
            /\ uf.op = "flatten" =>
                is_same_parent(uf.components, x, y) = is_same(uf.components, x, y).same
            /\ is_same_parent(uf.components, x, y) => is_same(uf.components, x, y).same

\* flatten has just run on the four elements that three unions had joined, and
\* every element has the parent 3
C32_Witness ==
    /\ uf # Idle /\ algo = "UnionFind"
    /\ uf.op = "flatten"
    /\ uf_unions = {<<0, 1>>, <<1, 2>>, <<2, 3>>}
    /\ \A x \in DOMAIN uf.components : parent_of(uf.components, x) = 3

\* C33: no call of an SSSD enumerator panics; every vertex in the queue of the
\* BFS enumerator has a distance in the lazy array, whatever a read of a
\* never-written cell yields; every entry (d, v) of the priority queue of the
\* Dijkstra enumerator has a recorded distance distances[v] with d >= it.
C33_QueuedVerticesHaveDistances ==
    /\ sssd_bfs # Idle =>
        /\ ~Panicked
        /\ \A k \in 1..Len(sssd_bfs.queue) : \A junk \in Junk(sssd_bfs.distances) :
                IsSome(get(sssd_bfs.distances, sssd_bfs.queue[k], junk))
    /\ sssd_dijkstra # Idle =>
        /\ ~Panicked
        /\ \A k \in 1..Len(sssd_dijkstra.priority_queue) :
            LET d == sssd_dijkstra.priority_queue[k][1]
                v == sssd_dijkstra.priority_queue[k][2]
            IN  /\ IsSome(sssd_dijkstra.distances[v])
                /\ d >= Unwrap(sssd_dijkstra.distances[v])

\* the priority queue holds an entry for a vertex whose recorded distance a
\* later relaxation has made shorter
C33_Witness ==
    /\ sssd_dijkstra # Idle
    /\ \E k \in 1..Len(sssd_dijkstra.priority_queue) :
        sssd_dijkstra.priority_queue[k][1]
            > Unwrap(sssd_dijkstra.distances[sssd_dijkstra.priority_queue[k][2]])
    /\ Len(Emitted) >= 2

\* C34: no call of IQS::next panics, and while idx < len the stack s is not
\* empty, its bottom entry is len, its entries strictly decrease from bottom to
\* top, its top entry is at least idx, a[0..idx) holds the idx smallest
\* elements in sorted order, and the element at every stacked position p < len
\* is exceeded by no element of a[idx..p) and exceeds no element of a[p+1..].
C34_StackOfPivots ==
    iqs # Idle =>
        /\ ~Panicked
        /\ iqs.idx < Len(iqs.a) =>
            LET a == iqs.a
                s == iqs.s
                len == Len(iqs.a)
            IN  /\ s # <<>>
                /\ s[1] = len
                /\ \A k \in 1..(Len(s) - 1) : s[k] > s[k + 1]
                /\ s[Len(s)] >= iqs.idx
                /\ \A i \in 0..(iqs.idx - 1) : \A j \in i..(len - 1) :
                        ~compares_lt(a[j + 1], a[i + 1])
                /\ \A k \in 1..Len(s) : s[k] < len =>
                        /\ \A i \in iqs.idx..(s[k] - 1) : ~compares_lt(a[s[k] + 1], a[i + 1])
                        /\ \A j \in (s[k] + 1)..(len - 1) : ~compares_lt(a[j + 1], a[s[k] + 1])

\* two of five elements have been returned and two pivots below the end of
\* the slice are stacked
C34_Witness ==
    /\ iqs # Idle /\ Len(iqs.a) = 5
    /\ iqs.idx = 2
    /\ Len(iqs.s) = 3
    /\ Len(out) = 2

\* C35: the first call of next on an SSSD enumerator with source s returns
\* (s, s, Some(0)), and so do, for every source of the graph, the calls whose
\* results the initialize_searches of the two sorted merges discard.
C35_FirstResultIsSelfDistance ==
    (sssd_bfs # Idle \/ sssd_dijkstra # Idle) =>
        /\ out # <<>> =>
                out[1] = Some(Partial(source_vertex, source_vertex, Some(0)))
        /\ \A s \in Vertices(graph) :
            /\ sssd_dijkstra_next(graph, SssdDijkstra(graph, s)).ret
                    = Some(Partial(s, s, Some(0)))
            /\ peekable_next(graph, Peekable(UnweightedSssd(graph, s))).ret
                    = Some(Partial(s, s, Some(0)))

\* the source has a self-loop of weight 0 and an edge of weight 0 to another
\* vertex, and the Dijkstra enumerator has returned twice
C35_Witness ==
    /\ sssd_dijkstra # Idle
    /\ <<source_vertex, 0>> \in Range(adjacencies(graph, source_vertex))
    /\ \E v \in Vertices(graph) \ {source_vertex} :
            <<v, 0>> \in Range(adjacencies(graph, source_vertex))
    /\ Len(out) = 2

\* C36: in every state of an IDFS no call has panicked, no vertex on
\* dfs_visit_stack is Black, every entry below the top is Gray, and no vertex
\* is on the stack twice.
C36_StackOfOpenVertices ==
    idfs # Idle =>
        LET stack == idfs.dfs_visit_stack
        IN  /\ ~Panicked
            /\ \A i \in 1..Len(stack) : idfs.colors[stack[i].vertex] # "Black"
            /\ \A i \in 1..(Len(stack) - 1) : idfs.colors[stack[i].vertex] = "Gray"
            /\ \A i, j \in 1..Len(stack) : i # j => stack[i].vertex # stack[j].vertex

\* three vertices are on the stack, the top one not yet discovered, and one
\* call has returned a back edge
C36_Witness ==
    /\ idfs # Idle
    /\ Len(idfs.dfs_visit_stack) = 3
    /\ idfs.colors[idfs.dfs_visit_stack[3].vertex] = "White"
    /\ \E k \in 1..Len(out) : IsSome(out[k]) /\ Unwrap(out[k])[1] = "BackEdge"

\* every search in bfs_queue has been peeked and its pending result has a
\* distance that is current_hop_distance or current_hop_distance + 1
bfs_queue_pending ==
    IsSome(parallel_bfs.bfs_queue) =>
        \A k \in 1..Len(Unwrap(parallel_bfs.bfs_queue)) :
            LET search == Unwrap(parallel_bfs.bfs_queue)[k]
            IN  /\ IsSome(search.peeked)
                /\ IsSome(Unwrap(search.peeked))
                /\ IsSome(Unwrap(Unwrap(search.peeked))[3])
                /\ Unwrap(Unwrap(Unwrap(search.peeked))[3])
                        \in {parallel_bfs.current_hop_distance,
                             parallel_bfs.current_hop_distance + 1}

\* C37: once the searches of the hop-distance sorted merge are initialized,
\* after every call of next each search in bfs_queue has a pending result whose
\* distance is current_hop_distance or current_hop_distance + 1, so no search
\* without a result or with a result without distance stays in bfs_queue; no
\* call lowers current_hop_distance or raises it by more than one.
C37_HopDistanceLayers ==
    /\ [](parallel_bfs # Idle => bfs_queue_pending)
    /\ [][parallel_bfs # Idle =>
            parallel_bfs'.current_hop_distance
                \in {parallel_bfs.current_hop_distance,
                     parallel_bfs.current_hop_distance + 1}]_vars

\* the distance of the pending result of the k-th search in bfs_queue
pending_distance(k) == Unwrap(Unwrap(Unwrap(Unwrap(parallel_bfs.bfs_queue)[k].peeked))[3])

\* at current_hop_distance 1 a result of distance 1 has been returned, and
\* bfs_queue holds a search with a pending result of distance 1 before one
\* with a pending result of distance 2
C37_Witness ==
    /\ parallel_bfs # Idle
    /\ IsSome(parallel_bfs.bfs_queue)
    /\ parallel_bfs.current_hop_distance = 1
    /\ Len(Unwrap(parallel_bfs.bfs_queue)) = 2
    /\ pending_distance(1) = 1
    /\ pending_distance(2) = 2
    /\ IsSome(parallel_bfs.ret) /\ Unwrap(parallel_bfs.ret)[3] = Some(1)

\* the edges IncrementalBoruvka has emitted or queued for emission
boruvka_selected == Emitted \o boruvka.edge_queue

\* the vertices joined to the vertices of seen by edges of es
RECURSIVE joined_by(_, _)
joined_by(es, seen) ==
    LET more == seen \cup {sink(es[k]) : k \in {k \in 1..Len(es) : source(es[k]) \in seen}}
                     \cup {source(es[k]) : k \in {k \in 1..Len(es) : sink(es[k]) \in seen}}
    IN  IF more = seen THEN seen ELSE joined_by(es, more)

\* the edges emitted or queued form a forest whose trees are the components of
\* the union-find
boruvka_forest ==
    LET n == num_vertices(graph)
        trees == {joined_by(boruvka_selected, {v}) : v \in Vertices(graph)}
    IN  /\ Cardinality(trees) = n - Len(boruvka_selected)
        /\ \A x, y \in Vertices(graph) :
                is_same(boruvka.components, x, y).same
                    <=> y \in joined_by(boruvka_selected, {x})

\* C38: at every point of an IncrementalBoruvka run on a connected graph the
\* edges emitted or queued contain no cycle and join exactly the components of
\* the union-find; an edge returned in credit accumulation joins two components
\* that differ before the call, and so does every edge an extension round
\* queues.
C38_EmittedEdgesAcyclic ==
    /\ [](boruvka # Idle => boruvka_forest)
    /\ [][(boruvka # Idle /\ IsSome(boruvka'.ret) /\ boruvka.edge_queue = <<>>)
            => \A e \in Range(<<Unwrap(boruvka'.ret)>> \o boruvka'.edge_queue) :
                    ~is_same(boruvka.components, source(e), sink(e)).same]_vars

\* an extension round on six vertices has queued two edges after three edges
\* of the credit accumulation
C38_Witness ==
    /\ boruvka # Idle /\ num_vertices(graph) = 6
    /\ boruvka.phase = "ExtensionPhase"
    /\ Len(Emitted) = 4
    /\ Len(boruvka.edge_queue) = 1

\* C39: on every directed graph, cyclic or not, the calls of
\* IterativeSourceRemoval::next that follow an Err(HasCycles) return None, and
\* a caller that goes on calling has received None after the calls the
\* vertices account for and one more.
C39_ExhaustedAfterErr ==
    isr # Idle =>
        /\ \A i, j \in 1..Len(out) :
                (i < j /\ out[i] = Some(Err(HasCycles))) => out[j] = None
        /\ Len(out) > num_vertices(graph) + 1 => out[Len(out)] = None

\* C40: on the graph with a single vertex and no edge the first next() call of
\* IncrementalBoruvka, IncrementalKruskal, IncrementalPrim and EnumMST returns
\* None and does not panic.
C40_SingleVertexReturnsNone ==
    (num_vertices(graph) = 1 /\ out # <<>>) => out[1] = None

====
